---- MODULE Spec2Model ----
(***************************************************************************)
(* A model of onlyfans_dl: the collection fetchers with their high-water   *)
(* mark (client/client.py), the media normalizers (client/structs.py),     *)
(* the per-user ledger and the download orchestrator                       *)
(* (OnlyFansScraper.download_media) and the run loop (__main__.py).        *)
(***************************************************************************)
EXTENDS Integers, Sequences, FiniteSets, TLC

\* ------------------------------------------------------------------ bounds
\* Largest timestamp of a record handed to a single fetcher walk.
WalkMaxTs == 2
\* Longest upstream collection handed to a single fetcher walk.
WalkMaxLen == 3
\* Records of such a collection that are not a plain post or message of the
\* target user with one viewable media item.
WalkMaxOdd == 1
\* Records the upstream returns per page (the code asks for limit=10).
PageLimit == 2

\* ----------------------------------------------------------------- helpers
UNSET == 0

Min2(a, b) == IF a <= b THEN a ELSE b

MaxOf(S) == IF S = {} THEN 0 ELSE CHOOSE x \in S : \A y \in S : y <= x

\* --------------------------------------------------- structs.py: records
\* One embedded media item of a post, message or story: id, type tag,
\* viewability flag and the URL of its source (0: no URL).
MediaItem(id, type, can_view, source) ==
    [id |-> id, type |-> type, can_view |-> can_view, source |-> source]

\* A post, archived post, message or story.  author is the post's author,
\* the message's from_user or the story's user_id (UNSET: reported post);
\* created_at is posted_at / created_at in epoch seconds; expired_at and
\* price are UNSET when the upstream record does not carry them; question
\* is the text of a story's question (UNSET: the story has none).
SourceRecord(id, author, created_at, expired_at, price, media, preview) ==
    [id |-> id, author |-> author, created_at |-> created_at,
     expired_at |-> expired_at, price |-> price, media |-> media,
     preview |-> preview, question |-> UNSET]

\* A text is the sequence of the parts an f-string joins with '.': <<>> is
\* the empty string, <<UNSET>> is None (and <<UNSET, q>> is 'None.q').
NoText == <<UNSET>>

NormalizedMedia(user_id, source_type, source_id, media, created_at, value, hc, text) ==
    [user_id |-> user_id, source_type |-> source_type, source_id |-> source_id,
     id |-> media.id, file_type |-> media.type, created_at |-> created_at,
     url |-> media.source, value |-> value, highlight_category |-> hc,
     text |-> text]

\* (mutant) every embedded media is taken.
AllMedia(media) == media

\* for media in ...: if not media.can_view: continue
Viewable(media) == SelectSeq(media, LAMBDA m : m.can_view)

\* post.media and any(media.can_view for media in post.media)
HasViewable(rec) == \E i \in DOMAIN rec.media : rec.media[i].can_view

normalize_post_media(post, skip_temporary) ==
    IF post.author = UNSET \/ post.media = <<>>
       \/ (post.expired_at # UNSET /\ skip_temporary)
    THEN <<>>
    ELSE LET v == Viewable(post.media) IN
         [i \in 1..Len(v) |->
            NormalizedMedia(post.author, "posts", post.id, v[i], post.created_at,
                            IF post.price # 0 THEN "paid" ELSE "free", UNSET, <<>>)]

\* (mutant) the preview list is not looked at.
normalize_archived_by_price(post, skip_temporary) ==
    LET nm == normalize_post_media(post, skip_temporary) IN
    [i \in DOMAIN nm |-> [nm[i] EXCEPT !.source_type = "archived"]]

normalize_archived_post_media(post, skip_temporary) ==
    IF post.author = UNSET \/ post.media = <<>>
       \/ (post.expired_at # UNSET /\ skip_temporary)
    THEN <<>>
    ELSE LET v == Viewable(post.media) IN
         [i \in 1..Len(v) |->
            NormalizedMedia(post.author, "archived", post.id, v[i], post.created_at,
                            IF post.price # 0 /\ v[i].id \notin post.preview
                            THEN "paid" ELSE "free", UNSET, <<>>)]

normalize_message_media(message) ==
    LET v == Viewable(message.media) IN
    [i \in 1..Len(v) |->
       NormalizedMedia(message.author, "messages", message.id, v[i],
                       message.created_at,
                       IF message.price # 0 /\ v[i].id \notin message.preview
                       THEN "paid" ELSE "free", UNSET, <<>>)]

normalize_story_media(story, highlight_category) ==
    LET v == Viewable(story.media) IN
    [i \in 1..Len(v) |->
       NormalizedMedia(story.author, "stories", story.id, v[i], story.created_at,
                       "free", highlight_category,
                       IF story.question # UNSET
                       THEN <<highlight_category, story.question>>
                       ELSE <<highlight_category>>)]

\* ------------------------------------------------ the upstream's paging
\* The page the API serves for limit=PageLimit at the given offset.
ServerPage(recs, offset) ==
    SubSeq(recs, offset + 1, Min2(offset + PageLimit, Len(recs)))

ServerHasMore(recs, offset) == offset + PageLimit < Len(recs)

\* --------------------------------------------- client.py: the fetchers
\* last_*_timestamp: max(timestamp) of the rows of one source type, 0 when
\* the table is missing (sqlite3.OperationalError) or holds no such row.
LastTimestamp(database, source_type) ==
    IF ~database.table THEN 0
    ELSE MaxOf({r.timestamp : r \in {x \in database.rows : x.source_type = source_type}})

NormalizePost(kind, post, skip_temporary) ==
    IF kind = "archived" THEN normalize_archived_post_media(post, skip_temporary)
    ELSE normalize_post_media(post, skip_temporary)

\* The for loop over one decoded page of posts, from index i on:
\* out is what it adds to user_medias, stop says it returned.
RECURSIVE PostPageScan(_, _, _, _, _)
\* (mutant) a post without viewable media ends the walk like a post at or
\* before the mark.
PostPageScanStopAtEmpty(kind, page, i, last, skip_temporary) ==
    IF i > Len(page) THEN [out |-> <<>>, stop |-> FALSE]
    ELSE IF page[i].created_at > last /\ HasViewable(page[i])
    THEN LET rest == PostPageScan(kind, page, i + 1, last, skip_temporary)
         IN  [out |-> NormalizePost(kind, page[i], skip_temporary) \o rest.out,
              stop |-> rest.stop]
    ELSE [out |-> <<>>, stop |-> TRUE]

PostPageScan(kind, page, i, last, skip_temporary) ==
    IF i > Len(page) THEN [out |-> <<>>, stop |-> FALSE]
    ELSE IF page[i].created_at > last
    THEN LET rest == PostPageScan(kind, page, i + 1, last, skip_temporary)
             here == IF HasViewable(page[i])
                     THEN NormalizePost(kind, page[i], skip_temporary) ELSE <<>>
         IN  [out |-> here \o rest.out, stop |-> rest.stop]
    ELSE [out |-> <<>>, stop |-> TRUE]

\* The while loop of get_post_media_by_id / get_archived_post_media_by_id
\* from the given offset: the media it returns and the requests it sends.
RECURSIVE PostWalk(_, _, _, _, _)
\* (mutant) the else branch leaves the for loop only: the walk goes on to
\* the next page.
PostWalkBreakOnly(kind, recs, offset, last, skip_temporary) ==
    LET page == ServerPage(recs, offset) IN
    IF page = <<>> THEN [out |-> <<>>, reqs |-> 1]
    ELSE LET s == PostPageScan(kind, page, 1, last, skip_temporary)
             r == PostWalk(kind, recs, offset + PageLimit, last, skip_temporary)
         IN  [out |-> s.out \o r.out, reqs |-> 1 + r.reqs]

PostWalk(kind, recs, offset, last, skip_temporary) ==
    LET page == ServerPage(recs, offset) IN
    IF page = <<>> THEN [out |-> <<>>, reqs |-> 1]
    ELSE LET s == PostPageScan(kind, page, 1, last, skip_temporary) IN
         IF s.stop THEN [out |-> s.out, reqs |-> 1]
         ELSE LET r == PostWalk(kind, recs, offset + PageLimit, last, skip_temporary)
              IN  [out |-> s.out \o r.out, reqs |-> 1 + r.reqs]

\* The for loop over one decoded page of messages.
RECURSIVE MessagePageScan(_, _, _, _)
MessagePageScan(user_id, page, i, last) ==
    IF i > Len(page) THEN [out |-> <<>>, stop |-> FALSE]
    ELSE IF page[i].created_at > last
    THEN LET rest == MessagePageScan(user_id, page, i + 1, last)
             here == IF page[i].author = user_id /\ HasViewable(page[i])
                     THEN normalize_message_media(page[i]) ELSE <<>>
         IN  [out |-> here \o rest.out, stop |-> rest.stop]
    ELSE [out |-> <<>>, stop |-> TRUE]

\* The while loop of get_message_media_by_id from the given offset.
RECURSIVE MessageWalk(_, _, _, _)
MessageWalk(user_id, recs, offset, last) ==
    LET page == ServerPage(recs, offset)
        s == MessagePageScan(user_id, page, 1, last)
    IN  IF s.stop \/ ~ServerHasMore(recs, offset) THEN [out |-> s.out, reqs |-> 1]
        ELSE LET r == MessageWalk(user_id, recs, offset + Len(page), last)
             IN  [out |-> s.out \o r.out, reqs |-> 1 + r.reqs]

\* for story in reversed(stories): collect while newer than the mark.
RECURSIVE StoryScan(_, _, _, _)
StoryScan(stories, i, last, highlight_category) ==
    IF i < 1 THEN <<>>
    ELSE IF stories[i].created_at > last
    THEN normalize_story_media(stories[i], highlight_category)
         \o StoryScan(stories, i - 1, last, highlight_category)
    ELSE <<>>

\* A fetcher on the offset-paginated collections, by collection kind.
OffsetFetch(kind, user_id, recs, last, skip_temporary) ==
    IF kind = "messages" THEN MessageWalk(user_id, recs, 0, last)
    ELSE PostWalk(kind, recs, 0, last, skip_temporary)

\* The stories of one highlight category or of the stories endpoint,
\* walked newest first.
StoryWalk(stories, last, highlight_category) ==
    StoryScan(stories, Len(stories), last, highlight_category)

\* get_highlight_media_by_id after the categories are listed: one request
\* per category, each category walked on its own.
RECURSIVE HighlightWalk(_, _)
\* (mutant) the story at or before the mark ends the fetcher, as the
\* `return` of the story fetcher does.
HighlightWalkReturn(categories, last) ==
    IF categories = <<>> THEN <<>>
    ELSE StoryWalk(Head(categories).stories, last, Head(categories).title)
         \o IF \E j \in DOMAIN Head(categories).stories :
                   Head(categories).stories[j].created_at <= last
            THEN <<>>
            ELSE HighlightWalk(Tail(categories), last)

HighlightWalk(categories, last) ==
    IF categories = <<>> THEN <<>>
    ELSE StoryWalk(Head(categories).stories, last, Head(categories).title)
         \o HighlightWalk(Tail(categories), last)

\* --------------------------------------------------------------- state
VARIABLES
    config,       \* the arguments of main() and the scrapers of the config file
    upstream,     \* what the API and the CDN serve
    database,     \* per user, the committed content of <username>/.media.db
    files,        \* per user, the files under <download_root>/<username>
    main,         \* the main thread: where it is in main() and download()
    fetching,     \* the futures of the collection kind being gathered
    user_medias,  \* download()'s dict user -> medias, in insertion order
    downloading,  \* the futures of executor.map(client.download_media, ...)
    hist,         \* history the properties refer to, and the model's budgets
    wIn, wOut     \* a fetcher walk taken on its own: its input and result

diskVars == <<database, files>>
procVars == <<main, fetching, user_medias, downloading>>
mainVars == <<config, upstream, diskVars, procVars, hist>>
walkVars == <<wIn, wOut>>
vars == <<mainVars, walkVars>>

\* ------------------------------------------------------------ the bounds
\* Passes (one scraper, one iteration) begun over all runs of the program.
MaxPasses == 3
\* Failures over all runs: a request that fails with a transport error, a
\* stop of the process.
MaxEvents == 1
\* Changes of the upstream (a new record, a new profile image).
MaxChanges == 1
\* Records the upstream holds at the start.
MaxRecs == 1

\* max_workers of both thread pools of download().
PoolWidth == 3

Users == 1..2

\* The collection kinds in the order download() gathers them.
Kinds == <<"posts", "archived", "messages", "highlights", "stories">>

\* ----------------------------------------------------------- the upstream
Photo(id) == MediaItem(id, "photo", TRUE, id)

\* The records the upstream may hold.  User 1 has two posts, an archived
\* post, a story that is also in a highlight category, a story with a
\* question, and a post with a media type the downloader does not know;
\* user 2 has an expiring post, an expiring archived post and a message.
Catalog ==
    { [user |-> 1, kind |-> "posts", title |-> UNSET,
       rec |-> SourceRecord(12, 1, 2, UNSET, 0, <<MediaItem(12, "video", TRUE, 12)>>, {})],
      [user |-> 1, kind |-> "posts", title |-> UNSET,
       rec |-> SourceRecord(11, 1, 1, UNSET, 5, <<Photo(11)>>, {})],
      [user |-> 1, kind |-> "posts", title |-> UNSET,
       rec |-> SourceRecord(16, 1, 2, UNSET, 0, <<MediaItem(16, "weird", TRUE, 16)>>, {})],
      [user |-> 1, kind |-> "archived", title |-> UNSET,
       rec |-> SourceRecord(13, 1, 1, UNSET, 0, <<MediaItem(13, "audio", TRUE, 13)>>, {})],
      [user |-> 1, kind |-> "stories", title |-> UNSET,
       rec |-> SourceRecord(14, 1, 1, UNSET, 0, <<Photo(14)>>, {})],
      [user |-> 1, kind |-> "stories", title |-> UNSET,
       rec |-> [SourceRecord(17, 1, 2, UNSET, 0, <<Photo(17)>>, {})
                   EXCEPT !.question = 1]],
      [user |-> 1, kind |-> "highlights", title |-> 15,
       rec |-> SourceRecord(14, 1, 1, UNSET, 0, <<Photo(14)>>, {})],
      [user |-> 2, kind |-> "posts", title |-> UNSET,
       rec |-> SourceRecord(21, 2, 1, 3, 0, <<Photo(21)>>, {})],
      [user |-> 2, kind |-> "archived", title |-> UNSET,
       rec |-> SourceRecord(23, 2, 1, 3, 0, <<Photo(23)>>, {})],
      [user |-> 2, kind |-> "messages", title |-> UNSET,
       rec |-> SourceRecord(22, 2, 1, UNSET, 0, <<MediaItem(22, "gif", TRUE, 22)>>, {})] }

\* The records of S as the API lists them: newest first.
RECURSIVE NewestFirst(_)
NewestFirst(S) ==
    IF S = {} THEN <<>>
    ELSE LET top == CHOOSE x \in S : \A y \in S :
                       \/ x.rec.created_at > y.rec.created_at
                       \/ x.rec.created_at = y.rec.created_at /\ x.rec.id >= y.rec.id
         IN  <<top>> \o NewestFirst(S \ {top})

Reverse(s) == [i \in 1..Len(s) |-> s[Len(s) + 1 - i]]

Held(user_id, kind) == {x \in upstream.present : x.user = user_id /\ x.kind = kind}

\* What the posts, archived-posts and messages endpoints hold for a user.
Collection(user_id, kind) ==
    LET s == NewestFirst(Held(user_id, kind)) IN [i \in 1..Len(s) |-> s[i].rec]

\* The stories endpoint lists oldest first.
Stories(user_id) == Reverse(Collection(user_id, "stories"))

\* The highlight categories of a user, each with its stories.
Categories(user_id) ==
    LET s == NewestFirst(Held(user_id, "highlights"))
    IN  [i \in 1..Len(s) |-> [id |-> s[i].title, title |-> s[i].title,
                              stories |-> <<s[i].rec>>]]

\* content-length of the file behind a URL.
ContentLength(url) == url

\* User structs as the endpoints decode them; origin tells the objects of
\* different responses apart.
UserObject(id, origin) == [id |-> id, origin |-> origin]

\* (mutant) the structs compare as msgspec compares them, field by field.
UserEqByFields(a, b) == a = b

\* UserRef.__eq__ and __hash__: by id alone.
UserEq(a, b) == a.id = b.id

\* get_subscriptions() and get_chats().
Subscriptions == [i \in 1..Len(upstream.subscriptions) |->
                    UserObject(upstream.subscriptions[i], "subscriptions")]

Chats == [i \in 1..Len(upstream.chats) |-> UserObject(upstream.chats[i], "chats")]

\* ------------------------------------------------------- the local store
\* valid: sqlite3 can read the file, or there is none.
NoDatabase == [table |-> FALSE, rows |-> {}, valid |-> TRUE]

\* A file at .media.db that is not a database: every statement on it raises
\* sqlite3.DatabaseError('file is not a database').
NotADatabase == [table |-> FALSE, rows |-> {}, valid |-> FALSE]

\* The sets of users whose ledger file may be such a file at the start.
Damaged == {{}, {1}}

Row(source_type, timestamp, source_id, media_id) ==
    [source_type |-> source_type, timestamp |-> timestamp,
     source_id |-> source_id, media_id |-> media_id]

RowKey(r) == <<r.source_type, r.source_id, r.media_id>>

MediaKey(m) == <<m.source_type, m.source_id, m.id>>

\* SELECT * FROM media WHERE source_type = ? AND source_id = ? AND media_id = ?
HasRow(rows, key) == \E r \in rows : RowKey(r) = key

ImagePath(which) ==
    [dir |-> "", name |-> which, a |-> 0, b |-> 0, text |-> <<>>, part |-> FALSE]

\* avatar-<timestamp>.jpg, header-<timestamp>.jpg
OldImagePath(which, timestamp) ==
    [dir |-> "", name |-> which, a |-> timestamp, b |-> 0, text |-> <<>>,
     part |-> FALSE]

\* <source_type>/<file_type>s/<date>.<media_id>.<text>.<extension>, the
\* default download template.
DestPath(m) ==
    [dir |-> m.source_type, name |-> m.file_type, a |-> m.created_at, b |-> m.id,
     text |-> m.text, part |-> FALSE]

\* (mutant) the file is written where it is to stay.
NoTemp(dest) == dest

\* <dest>.<random token>.part
TempPath(dest) == [dest EXCEPT !.part = TRUE]

File(path, size) == [path |-> path, size |-> size]

Exists(fs, path) == \E f \in fs : f.path = path

SizeAt(fs, path) == (CHOOSE f \in fs : f.path = path).size

Unlink(fs, path) == {f \in fs : f.path # path}

\* open(path, 'wb') and the chunks written to it.
WriteFile(fs, path, size) == Unlink(fs, path) \cup {File(path, size)}

\* (mutant) the rename does nothing.
NoRename(fs, from, to) == fs

\* pathlib.Path.rename: replaces the target.
Rename(fs, from, to) == WriteFile(Unlink(fs, from), to, SizeAt(fs, from))

\* ------------------------------------------------------------ main()
Scrapers == << [name |-> "a", skip_temporary |-> FALSE],
               [name |-> "b", skip_temporary |-> TRUE] >>

Client == config.clients[main.client]

\* The command lines the program is run with: one shot over the
\* subscriptions, one shot over the users named, run forever with users
\* named and without.
CommandLines ==
    {[run_forever |-> FALSE, args_users |-> <<>>, clients |-> Scrapers],
     [run_forever |-> FALSE, args_users |-> <<1>>, clients |-> Scrapers],
     [run_forever |-> TRUE, args_users |-> <<1>>, clients |-> Scrapers],
     [run_forever |-> TRUE, args_users |-> <<>>, clients |-> Scrapers]}

\* The calls of get_subscriptions and of get_chats made so far for the
\* current scraper in the current iteration.
Calls(subscriptions, chats) == [subscriptions |-> subscriptions, chats |-> chats]

FreshMain ==
    [pc |-> "loop", client |-> 1, kind |-> 1,
     users |-> <<>>, chats |-> <<>>, error |-> "none", calls |-> Calls(0, 0)]

NoClean == [c \in 1..Len(Scrapers) |-> FALSE]

Init ==
    /\ config \in CommandLines
    /\ \E P \in SUBSET Catalog :
          /\ Cardinality(P) <= MaxRecs
          /\ upstream = [present |-> P, subscriptions |-> <<1, 2>>, chats |-> <<2>>,
                         images |-> [u \in Users |->
                            IF u = 1 THEN [avatar |-> 1, header |-> UNSET]
                            ELSE [avatar |-> UNSET, header |-> 1]]]
    /\ \E G \in Damaged :
          database = [u \in Users |-> IF u \in G THEN NotADatabase ELSE NoDatabase]
    /\ files = [u \in Users |-> {}]
    /\ main = FreshMain
    /\ fetching = <<>>
    /\ user_medias = <<>>
    /\ downloading = <<>>
    /\ hist = [passes |-> 0, crashes |-> 0, changes |-> 0, faults |-> 0,
               faulty |-> FALSE, clean |-> NoClean, interrupted |-> {}]
    /\ wIn = <<>>
    /\ wOut = <<>>

\* A request fails with a transport error.
Fault(h) == [h EXCEPT !.faults = @ + 1, !.faulty = TRUE, !.clean = NoClean,
                      !.interrupted = {}]

MayHappen == hist.faults + hist.crashes < MaxEvents

MayFail == MayHappen

\* An exception leaves main(): the process ends.
Raise(m, error) == [m EXCEPT !.pc = "dead", !.error = error]

\* The for loop of main() moves on: the next scraper, the next iteration
\* after time.sleep(5), or the end of a one-shot run.
NextClient(m) ==
    IF m.client < Len(config.clients)
    THEN [m EXCEPT !.pc = "loop", !.client = @ + 1]
    ELSE IF config.run_forever
         THEN [m EXCEPT !.pc = "loop", !.client = 1]
         ELSE [m EXCEPT !.pc = "exit"]

\* The pass of the current scraper is over; it was clean when no request
\* of it failed.
PassOver(h) == [h EXCEPT !.clean[main.client] = ~h.faulty]

\* executor.submit(fetcher, user.id) for every user of the list
Futures(list) ==
    [i \in 1..Len(list) |-> [user |-> list[i], st |-> "queued", last |-> 0,
                             error |-> "none"]]

\* The list a collection kind is gathered for: the chats for messages,
\* the subscriptions for everything else.
TaskList(kind, m) == IF Kinds[kind] = "messages" THEN m.chats ELSE m.users

\* download(client, users=..., chats=...) is entered.
EnterDownload(users, chats, calls) ==
    /\ main' = [main EXCEPT !.pc = "fetch", !.kind = 1, !.users = users, !.chats = chats,
                            !.calls = calls]
    /\ fetching' = Futures(users)
    /\ user_medias' = <<>>
    /\ downloading' = <<>>

ArgsUsers == [i \in 1..Len(config.args_users) |->
                UserObject(config.args_users[i], "details")]

\* The body of `for client in clients` up to the call of download():
\* lines 166-180 (run forever) and 185-200 (one shot).
Discover ==
    /\ main.pc = "loop"
    /\ hist.passes < MaxPasses
    /\ LET h == [hist EXCEPT !.passes = @ + 1, !.faulty = FALSE] IN
       \/ /\ config.args_users # <<>>
          /\ hist' = h
          /\ IF config.run_forever
             THEN /\ main' = [main EXCEPT !.pc = "second", !.users = ArgsUsers,
                                          !.calls = Calls(0, 0)]
                  /\ UNCHANGED <<fetching, user_medias, downloading>>
             ELSE EnterDownload(ArgsUsers, ArgsUsers, Calls(0, 0))
       \/ /\ config.args_users = <<>>
          /\ hist' = h
          /\ IF config.run_forever
             THEN /\ main' = [main EXCEPT !.pc = "second", !.users = Subscriptions,
                                          !.chats = Chats, !.calls = Calls(1, 1)]
                  /\ UNCHANGED <<fetching, user_medias, downloading>>
             ELSE EnterDownload(Subscriptions, Chats, Calls(1, 1))
       \/ \* get_user_details raises outside of any try
          /\ config.args_users # <<>>
          /\ MayFail
          /\ hist' = [Fault(h) EXCEPT !.clean = NoClean]
          /\ main' = Raise([main EXCEPT !.calls = Calls(0, 0)], "ScrapingException")
          /\ UNCHANGED <<fetching, user_medias, downloading>>
       \/ \* get_subscriptions or get_chats raises: logged, `continue`
          /\ config.args_users = <<>>
          /\ MayFail
          /\ hist' = [Fault(h) EXCEPT !.clean[main.client] = FALSE]
          /\ \E chats \in {0, 1} :
                main' = NextClient([main EXCEPT !.calls = Calls(1, chats)])
          /\ UNCHANGED <<fetching, user_medias, downloading>>
    /\ UNCHANGED <<config, upstream, diskVars, walkVars>>

\* (mutant) download() is given the lists of the guarded block.
FirstLists(m) == [users |-> m.users, chats |-> m.chats]

\* users=client.get_subscriptions(), chats=client.get_chats()
DownloadArguments(m) == [users |-> Subscriptions, chats |-> Chats]

\* Line 181: download(client, users=client.get_subscriptions(),
\* chats=client.get_chats()), the arguments evaluated outside of the try.
SecondDiscovery ==
    /\ main.pc = "second"
    /\ \/ /\ EnterDownload(DownloadArguments(main).users, DownloadArguments(main).chats,
                           Calls(main.calls.subscriptions + 1, main.calls.chats + 1))
          /\ UNCHANGED hist
       \/ /\ MayFail
          /\ hist' = [Fault(hist) EXCEPT !.clean = NoClean]
          /\ \E chats \in {0, 1} :
                main' = Raise([main EXCEPT !.calls = Calls(@.subscriptions + 1,
                                                          @.chats + chats)],
                              "ScrapingException")
          /\ UNCHANGED <<fetching, user_medias, downloading>>
    /\ UNCHANGED <<config, upstream, diskVars, walkVars>>

\* While main() is between its two discoveries the upstream comes to list
\* the subscriptions in another order.
ListingChanges ==
    /\ main.pc = "second"
    /\ hist.changes < MaxChanges
    /\ upstream' = [upstream EXCEPT !.subscriptions = Reverse(@)]
    /\ hist' = [hist EXCEPT !.changes = @ + 1]
    /\ UNCHANGED <<config, diskVars, procVars, walkVars>>

\* ------------------------------------------- download(): the fetch phase
Running(futures) == {i \in DOMAIN futures : futures[i].st = "running"}

\* A worker of the pool takes a fetch task: the fetcher reads the user's
\* high-water mark from the ledger.  Only sqlite3.OperationalError is
\* caught there: the DatabaseError of a file that is not a database ends
\* the fetcher.
FetchStart(i) ==
    /\ main.pc = "fetch"
    /\ i \in DOMAIN fetching
    /\ fetching[i].st = "queued"
    /\ Cardinality(Running(fetching)) < PoolWidth
    /\ IF database[fetching[i].user.id].valid
       THEN fetching' = [fetching EXCEPT ![i].st = "running",
                            ![i].last = LastTimestamp(database[fetching[i].user.id],
                                                      Kinds[main.kind])]
       ELSE fetching' = [fetching EXCEPT ![i].st = "failed",
                                         ![i].error = "DatabaseError"]
    /\ UNCHANGED <<config, upstream, diskVars, main, user_medias, downloading,
                   hist, walkVars>>

\* What a fetcher returns for a user from the mark it read.
FetchResult(kind, user_id, last, skip_temporary) ==
    CASE kind = "highlights" -> HighlightWalk(Categories(user_id), last)
      [] kind = "stories" -> StoryWalk(Stories(user_id), last, UNSET)
      [] OTHER -> OffsetFetch(kind, user_id, Collection(user_id, kind), last,
                              skip_temporary).out

\* (mutant) the result of a future takes the place of its user's entry.
MergeOverwrite(um, user, result) ==
    LET at == {i \in DOMAIN um : UserEq(um[i].user, user)} IN
    IF at = {} THEN Append(um, [user |-> user, medias |-> result])
    ELSE [um EXCEPT ![CHOOSE i \in at : TRUE].medias = result]

\* Lines 89-92: the result of a future is added to its user's entry.
Merge(um, user, result) ==
    LET at == {i \in DOMAIN um : UserEq(um[i].user, user)} IN
    IF at = {} THEN Append(um, [user |-> user, medias |-> result])
    ELSE [um EXCEPT ![CHOOSE i \in at : TRUE].medias = @ \o result]

\* A fetch task ends and as_completed hands it to the main thread: its
\* result is merged, or its ScrapingException is raised by future.result().
FetchFinish(i) ==
    /\ main.pc = "fetch"
    /\ i \in DOMAIN fetching
    /\ fetching[i].st = "running"
    /\ \/ /\ fetching' = [fetching EXCEPT ![i].st = "done"]
          /\ user_medias' = Merge(user_medias, fetching[i].user,
                                  FetchResult(Kinds[main.kind], fetching[i].user.id,
                                              fetching[i].last, Client.skip_temporary))
          /\ UNCHANGED hist
       \/ /\ MayFail
          /\ fetching' = [fetching EXCEPT ![i].st = "failed",
                                          ![i].error = "ScrapingException"]
          /\ hist' = Fault(hist)
          /\ UNCHANGED user_medias
    /\ UNCHANGED <<config, upstream, diskVars, main, downloading, walkVars>>

\* (mutant) the main thread does not wait for the futures.
NoWait == TRUE

\* Every future of the kind has ended (the executor is only left, and the
\* next kind only submitted, after that).
AllFetched == \A i \in DOMAIN fetching : fetching[i].st \in {"done", "failed"}

\* (mutant) the stories are gathered whatever the scraper's flag.
NextKindAll(k) == k + 1

\* The kind gathered after kind k: stories are left out under skip_temporary.
NextKind(k) ==
    IF k + 1 <= Len(Kinds) /\ Kinds[k + 1] = "stories" /\ Client.skip_temporary
    THEN k + 2 ELSE k + 1

\* executor.map(client.download_media, user_medias.keys(), user_medias.values()).
\* Of a task: index is the place of the loop in medias, tx the rows it has
\* inserted (its transaction until the commit), logged the places whose
\* request was logged as failed, requested the places whose media was
\* requested.
DownloadFutures(um) ==
    [i \in 1..Len(um) |-> [user |-> um[i].user, medias |-> um[i].medias,
                           st |-> "queued", index |-> 1, tx |-> {},
                           logged |-> {}, requested |-> {}, error |-> "none"]]

\* The main thread has the results of one kind: it submits the next kind,
\* or leaves the fetch phase (lines 129-138), or the exception of a failed
\* future leaves download() and main().
FetchAdvance ==
    /\ main.pc = "fetch"
    /\ AllFetched
    /\ IF \E i \in DOMAIN fetching : fetching[i].st = "failed"
       THEN /\ \E i \in DOMAIN fetching :
                  /\ fetching[i].st = "failed"
                  /\ main' = Raise(main, fetching[i].error)
            /\ hist' = [hist EXCEPT !.clean = NoClean]
            /\ UNCHANGED <<fetching, user_medias, downloading>>
       ELSE IF NextKind(main.kind) <= Len(Kinds)
       THEN /\ main' = [main EXCEPT !.kind = NextKind(main.kind)]
            /\ fetching' = Futures(TaskList(NextKind(main.kind), main))
            /\ UNCHANGED <<user_medias, downloading, hist>>
       ELSE IF \A i \in DOMAIN user_medias : user_medias[i].medias = <<>>
       THEN \* 'no new medias found'
            /\ main' = NextClient(main)
            /\ hist' = PassOver(hist)
            /\ fetching' = <<>>
            /\ user_medias' = <<>>
            /\ UNCHANGED downloading
       ELSE /\ main' = [main EXCEPT !.pc = "download"]
            /\ downloading' = DownloadFutures(user_medias)
            /\ UNCHANGED <<fetching, user_medias, hist>>
    /\ UNCHANGED <<config, upstream, diskVars, walkVars>>

\* ---------------------------------------------------- download_media()
\* (mutant) the lookups see the committed rows only.
CommittedOnly(i) == database[downloading[i].user.id].rows

\* The rows the connection of download task i sees: the committed ones
\* and those of its open transaction.
Ledger(i) == database[downloading[i].user.id].rows \cup downloading[i].tx

Started(futures) ==
    {i \in DOMAIN futures : futures[i].st \notin {"queued", "done", "raised", "cancelled"}}

\* (mutant) a type without a case gets an extension of its own.
ExtensionDefault(file_type) ==
    CASE file_type = "photo" -> "jpg"
      [] file_type = "video" -> "mp4"
      [] file_type = "audio" -> "mp3"
      [] file_type = "gif" -> "mp4"
      [] OTHER -> "bin"

\* match media.file_type
Extension(file_type) ==
    CASE file_type = "photo" -> "jpg"
      [] file_type = "video" -> "mp4"
      [] file_type = "audio" -> "mp3"
      [] file_type = "gif" -> "mp4"
      [] OTHER -> "none"

\* (mutant) download_media goes on with an empty list.
NoMediasIgnored(medias) == FALSE

\* Lines 490-491: `if not medias: return`.
NoMedias(medias) == medias = <<>>

\* A worker takes a download task: lines 490-508.  The table is created
\* outside of any transaction; on a file that is not a database the
\* statement raises.
DownloadStart(i) ==
    /\ main.pc = "download"
    /\ downloading[i].st = "queued"
    /\ Cardinality(Started(downloading)) < PoolWidth
    /\ IF NoMedias(downloading[i].medias)
       THEN /\ downloading' = [downloading EXCEPT ![i].st = "done"]
            /\ UNCHANGED database
       ELSE IF ~database[downloading[i].user.id].valid
       THEN /\ downloading' = [downloading EXCEPT ![i].st = "raised",
                                                  ![i].error = "DatabaseError"]
            /\ UNCHANGED database
       ELSE /\ downloading' = [downloading EXCEPT ![i].st = "avatar"]
            /\ database' = [database EXCEPT ![downloading[i].user.id].table = TRUE]
    /\ UNCHANGED <<config, upstream, files, main, fetching, user_medias, hist, walkVars>>

AfterImage(which) == IF which = "avatar" THEN "header" ELSE "media"

Temp(which) == IF which = "avatar" THEN "avatar_tmp" ELSE "header_tmp"

\* Lines 510-524 (avatar) and 530-544 (header): the request, the lookup of
\* the image's timestamp in the ledger, the rename of the current image
\* and the write of the temporary file.
ImageBegin(i, which) ==
    /\ main.pc = "download"
    /\ downloading[i].st = which
    /\ LET u == downloading[i].user.id
           timestamp == upstream.images[u][which]
           known == {r \in Ledger(i) : r.source_type = which}
           recorded == HasRow(Ledger(i), <<which, timestamp, timestamp>>)
           dest == ImagePath(which)
           rotated == IF known = {} THEN files[u]
                      ELSE Rename(files[u], dest,
                                  OldImagePath(which, MaxOf({r.timestamp : r \in known})))
           over == [downloading EXCEPT ![i].st = AfterImage(which)]
       IN  \/ \* the user has no such image, or its timestamp is recorded
              /\ timestamp = UNSET \/ recorded
              /\ downloading' = over
              /\ UNCHANGED <<files, hist>>
           \/ \* the request fails: 'error getting avatar'
              /\ timestamp # UNSET
              /\ MayFail
              /\ downloading' = over
              /\ hist' = Fault(hist)
              /\ UNCHANGED files
           \/ \* dest_file.rename finds no file: FileNotFoundError
              /\ timestamp # UNSET /\ ~recorded
              /\ known # {} /\ ~Exists(files[u], dest)
              /\ downloading' = [downloading EXCEPT ![i].st = "raised", ![i].tx = {},
                                                    ![i].error = "FileNotFoundError"]
              /\ UNCHANGED <<files, hist>>
           \/ \* the image is written to the temporary file
              /\ timestamp # UNSET /\ ~recorded
              /\ known = {} \/ Exists(files[u], dest)
              /\ files' = [files EXCEPT ![u] = WriteFile(rotated, TempPath(dest), timestamp)]
              /\ downloading' = [downloading EXCEPT ![i].st = Temp(which)]
              /\ UNCHANGED hist
           \/ \* the connection breaks while the chunks are read
              /\ timestamp # UNSET /\ ~recorded
              /\ known = {} \/ Exists(files[u], dest)
              /\ MayFail
              /\ files' = [files EXCEPT ![u] = WriteFile(rotated, TempPath(dest), 0)]
              /\ downloading' = over
              /\ hist' = Fault(hist)
    /\ UNCHANGED <<config, upstream, database, main, fetching, user_medias, walkVars>>

\* Lines 525-526 and 545-546: temp_file.rename(dest_file), INSERT.
ImageEnd(i, which) ==
    /\ main.pc = "download"
    /\ downloading[i].st = Temp(which)
    /\ LET u == downloading[i].user.id
           timestamp == upstream.images[u][which]
           dest == ImagePath(which)
       IN  /\ files' = [files EXCEPT ![u] = Rename(files[u], TempPath(dest), dest)]
           /\ downloading' = [downloading EXCEPT
                  ![i].st = AfterImage(which),
                  ![i].tx = @ \cup {Row(which, timestamp, timestamp, timestamp)}]
    /\ UNCHANGED <<config, upstream, database, main, fetching, user_medias, hist, walkVars>>

MediaRow(m) == Row(m.source_type, m.created_at, m.source_id, m.id)

\* (mutant) the destination is never taken for downloaded.
NeverThere(fs, m) == FALSE

\* dest_file.exists() and dest_file.stat().st_size == content-length
AlreadyThere(fs, m) ==
    /\ Exists(fs, DestPath(m))
    /\ SizeAt(fs, DestPath(m)) = ContentLength(m.url)

\* (mutant) the ledger is not asked whether the item is recorded.
NoLookup(rows, m) == FALSE

\* Line 552: the item has its row.
Recorded(rows, m) == HasRow(rows, MediaKey(m))

\* Line 587: self.session.get(media.url, ...) for the item at the index.
Get(task) == [task EXCEPT !.requested = @ \cup {task.index}]

\* (mutant) the transport error leaves download_media.
Uncaught(task) == [task EXCEPT !.st = "raised", !.tx = {}, !.error = "RequestException"]

\* except requests.RequestException: 'error getting media' is logged and
\* the loop goes on.
Caught(task) == [task EXCEPT !.index = @ + 1, !.logged = @ \cup {task.index}]

\* Lines 551-594 for the item at the task's index: the lookup in the
\* ledger, the extension, the request, the check of the destination and
\* the write of the temporary file.
MediaBegin(i) ==
    /\ main.pc = "download"
    /\ downloading[i].st = "media"
    /\ downloading[i].index <= Len(downloading[i].medias)
    /\ LET u == downloading[i].user.id
           m == downloading[i].medias[downloading[i].index]
           wanted == ~Recorded(Ledger(i), m) /\ Extension(m.file_type) # "none"
           over == [downloading EXCEPT ![i].index = @ + 1]
       IN  \/ \* recorded, or of an unknown type: `continue`
              /\ ~wanted
              /\ downloading' = over
              /\ UNCHANGED <<files, hist>>
           \/ \* the template formats a text that is None: TypeError
              /\ wanted
              /\ m.text = NoText
              /\ downloading' = [downloading EXCEPT ![i].st = "raised", ![i].tx = {},
                                                    ![i].error = "TypeError"]
              /\ UNCHANGED <<files, hist>>
           \/ \* the request fails (also when the item has no URL)
              /\ wanted /\ m.text # NoText
              /\ MayFail \/ m.url = UNSET
              /\ downloading' = [downloading EXCEPT ![i] = Caught(Get(@))]
              /\ hist' = IF m.url = UNSET THEN hist ELSE Fault(hist)
              /\ UNCHANGED files
           \/ \* the destination is there with the remote length: INSERT
              /\ wanted /\ m.text # NoText /\ m.url # UNSET
              /\ AlreadyThere(files[u], m)
              /\ downloading' = [downloading EXCEPT ![i] = Get(@),
                                                    ![i].index = @ + 1,
                                                    ![i].tx = @ \cup {MediaRow(m)}]
              /\ UNCHANGED <<files, hist>>
           \/ \* the file is written to the temporary file
              /\ wanted /\ m.text # NoText /\ m.url # UNSET
              /\ ~AlreadyThere(files[u], m)
              /\ files' = [files EXCEPT ![u] =
                              WriteFile(@, TempPath(DestPath(m)), ContentLength(m.url))]
              /\ downloading' = [downloading EXCEPT ![i] = Get(@),
                                                    ![i].st = "media_tmp"]
              /\ UNCHANGED hist
           \/ \* the connection breaks while the chunks are read
              /\ wanted /\ m.text # NoText /\ m.url # UNSET
              /\ ~AlreadyThere(files[u], m)
              /\ MayFail
              /\ files' = [files EXCEPT ![u] = WriteFile(@, TempPath(DestPath(m)), 0)]
              /\ downloading' = [downloading EXCEPT ![i] = Caught(Get(@))]
              /\ hist' = Fault(hist)
    /\ UNCHANGED <<config, upstream, database, main, fetching, user_medias, walkVars>>

\* Lines 595-596: temp_file.rename(dest_file), INSERT.
MediaEnd(i) ==
    /\ main.pc = "download"
    /\ downloading[i].st = "media_tmp"
    /\ LET u == downloading[i].user.id
           m == downloading[i].medias[downloading[i].index]
       IN  /\ files' = [files EXCEPT ![u] =
                           Rename(@, TempPath(DestPath(m)), DestPath(m))]
           /\ downloading' = [downloading EXCEPT ![i].st = "media", ![i].index = @ + 1,
                                                 ![i].tx = @ \cup {MediaRow(m)}]
    /\ UNCHANGED <<config, upstream, database, main, fetching, user_medias, hist, walkVars>>

\* Line 599: database.commit() after the last item.
Commit(i) ==
    /\ main.pc = "download"
    /\ downloading[i].st = "media"
    /\ downloading[i].index > Len(downloading[i].medias)
    /\ database' = [database EXCEPT ![downloading[i].user.id].rows =
                       @ \cup downloading[i].tx]
    /\ downloading' = [downloading EXCEPT ![i].st = "done"]
    /\ UNCHANGED <<config, upstream, files, main, fetching, user_medias, hist, walkVars>>

\* --------------------------------------- download(): the download phase
\* The iterator of executor.map reaches a future that raised: on its way
\* out it cancels the futures no worker has taken.
CancelQueued ==
    /\ main.pc = "download"
    /\ \E i \in DOMAIN downloading :
          /\ downloading[i].st = "raised"
          /\ \A k \in 1..(i - 1) : downloading[k].st = "done"
    /\ \E i \in DOMAIN downloading : downloading[i].st = "queued"
    /\ downloading' = [i \in DOMAIN downloading |->
                          IF downloading[i].st = "queued"
                          THEN [downloading[i] EXCEPT !.st = "cancelled"]
                          ELSE downloading[i]]
    /\ UNCHANGED <<config, upstream, diskVars, main, fetching, user_medias, hist, walkVars>>

FirstRaised ==
    CHOOSE i \in DOMAIN downloading :
       /\ downloading[i].st = "raised"
       /\ \A k \in 1..(i - 1) : downloading[k].st # "raised"

\* The executor is left: every task has ended.  The exception of a task
\* leaves download() and main(); otherwise download() returns, and with it
\* its futures and user_medias are gone.
DownloadJoin ==
    /\ main.pc = "download"
    /\ \A i \in DOMAIN downloading : downloading[i].st \in {"done", "raised", "cancelled"}
    /\ IF \E i \in DOMAIN downloading : downloading[i].st = "raised"
       THEN /\ main' = Raise(main, downloading[FirstRaised].error)
            /\ hist' = [hist EXCEPT !.clean = NoClean]
            /\ UNCHANGED <<fetching, user_medias, downloading>>
       ELSE /\ main' = NextClient(main)
            /\ hist' = PassOver(hist)
            /\ fetching' = <<>>
            /\ user_medias' = <<>>
            /\ downloading' = <<>>
    /\ UNCHANGED <<config, upstream, diskVars, walkVars>>

\* ------------------------------------------------- the process, from outside
\* The place in medias of the first item with the key.
FirstWith(medias, key) ==
    CHOOSE k \in DOMAIN medias :
       /\ MediaKey(medias[k]) = key
       /\ \A j \in 1..(k - 1) : MediaKey(medias[j]) # key

\* What a stop of the process interrupts: the items whose temporary file
\* is written and not renamed ("temp"), and those whose row is inserted
\* and not committed ("placed").
Interrupted ==
    UNION {
       LET t == downloading[i] IN
       {[client |-> main.client, user |-> t.user.id, at |-> "temp",
         key |-> MediaKey(t.medias[t.index]), dest |-> DestPath(t.medias[t.index])] :
           k \in IF t.st = "media_tmp" THEN {1} ELSE {}}
       \cup {[client |-> main.client, user |-> t.user.id, at |-> "placed",
               key |-> RowKey(r),
               dest |-> DestPath(t.medias[FirstWith(t.medias, RowKey(r))])] :
                 r \in {x \in t.tx : x.source_type \notin {"avatar", "header"}}} :
       i \in {k \in DOMAIN downloading : downloading[k].st # "done"}}

\* The process is stopped while download_media runs: its threads and open
\* transactions are gone, the files stay.  (A stop anywhere else leaves
\* the ledger and the files as they are.)
Crash ==
    /\ main.pc = "download"
    /\ MayHappen
    /\ main' = [FreshMain EXCEPT !.pc = "stopped"]
    /\ fetching' = <<>>
    /\ user_medias' = <<>>
    /\ downloading' = <<>>
    /\ hist' = [hist EXCEPT !.crashes = @ + 1, !.clean = NoClean,
                            !.interrupted = Interrupted]
    /\ UNCHANGED <<config, upstream, diskVars, walkVars>>

\* The program is run again.
Restart ==
    /\ main.pc \in {"exit", "dead", "stopped"}
    /\ hist.passes < MaxPasses
    /\ main' = FreshMain
    /\ fetching' = <<>>
    /\ user_medias' = <<>>
    /\ downloading' = <<>>
    /\ UNCHANGED <<config, upstream, diskVars, hist, walkVars>>

\* Between two passes a user publishes a record of the catalog.
Publish ==
    /\ main.pc = "loop"
    /\ hist.changes < MaxChanges
    /\ \E x \in Catalog \ upstream.present :
          upstream' = [upstream EXCEPT !.present = @ \cup {x}]
    /\ hist' = [hist EXCEPT !.changes = @ + 1, !.clean = NoClean]
    /\ UNCHANGED <<config, diskVars, procVars, walkVars>>

\* Between two passes a user uploads a new avatar or header.
NewImage ==
    /\ main.pc = "loop"
    /\ hist.changes < MaxChanges
    /\ \E u \in Users, which \in {"avatar", "header"} :
          /\ upstream.images[u][which] # UNSET
          /\ upstream' = [upstream EXCEPT !.images[u][which] = @ + 1]
    /\ hist' = [hist EXCEPT !.changes = @ + 1, !.clean = NoClean]
    /\ UNCHANGED <<config, diskVars, procVars, walkVars>>

Next ==
    \/ Discover
    \/ SecondDiscovery
    \/ ListingChanges
    \/ \E i \in DOMAIN fetching : FetchStart(i)
    \/ \E i \in DOMAIN fetching : FetchFinish(i)
    \/ FetchAdvance
    \/ \E i \in DOMAIN downloading : DownloadStart(i)
    \/ \E i \in DOMAIN downloading, which \in {"avatar", "header"} : ImageBegin(i, which)
    \/ \E i \in DOMAIN downloading, which \in {"avatar", "header"} : ImageEnd(i, which)
    \/ \E i \in DOMAIN downloading : MediaBegin(i)
    \/ \E i \in DOMAIN downloading : MediaEnd(i)
    \/ \E i \in DOMAIN downloading : Commit(i)
    \/ CancelQueued
    \/ DownloadJoin
    \/ Crash
    \/ Restart
    \/ Publish
    \/ NewImage

Spec == Init /\ [][Next]_vars

\* ------------------------------------------- one fetcher walk on its own
WalkUser == 1

WalkShapes == {"none", "view", "hidden", "foreign", "expiring", "reported"}

\* The record at position i of a walk's collection, of the given shape.
WalkRecord(i, ts, shape) ==
    SourceRecord(i, CASE shape = "foreign" -> WalkUser + 1
                       [] shape = "reported" -> UNSET
                       [] OTHER -> WalkUser, ts,
                 IF shape = "expiring" THEN 1 ELSE UNSET, 0,
                 IF shape = "none" THEN <<>>
                 ELSE <<MediaItem(i, "photo", shape # "hidden", i)>>,
                 {})

WalkCollections ==
    {c \in UNION {[1..n -> (1..WalkMaxTs) \X WalkShapes] : n \in 0..WalkMaxLen} :
        Cardinality({i \in DOMAIN c : c[i][2] # "view"}) <= WalkMaxOdd}

InitWalk ==
    /\ \E c \in WalkCollections, kind \in {"posts", "archived", "messages"},
          last \in 0..WalkMaxTs, skip \in BOOLEAN :
          wIn = [kind |-> kind, last |-> last, skip_temporary |-> skip,
                 recs |-> [i \in DOMAIN c |-> WalkRecord(i, c[i][1], c[i][2])]]
    /\ wOut = [done |-> FALSE, out |-> <<>>, reqs |-> 0]
    /\ config = [run_forever |-> FALSE, args_users |-> <<>>, clients |-> <<>>]
    /\ upstream = [present |-> {}, subscriptions |-> <<>>, chats |-> <<>>,
                   images |-> <<>>]
    /\ database = <<>>
    /\ files = <<>>
    /\ main = [FreshMain EXCEPT !.pc = "exit"]
    /\ fetching = <<>>
    /\ user_medias = <<>>
    /\ downloading = <<>>
    /\ hist = [passes |-> 0, crashes |-> 0, changes |-> 0, faults |-> 0,
               faulty |-> FALSE, clean |-> <<>>, interrupted |-> {}]

RunWalk ==
    /\ ~wOut.done
    /\ LET r == OffsetFetch(wIn.kind, WalkUser, wIn.recs, wIn.last, wIn.skip_temporary)
       IN  wOut' = [done |-> TRUE, out |-> r.out, reqs |-> r.reqs]
    /\ UNCHANGED <<wIn, mainVars>>

NextWalk == RunWalk

SpecWalk == InitWalk /\ [][NextWalk]_vars

\* ------------------------------- the story and highlight walks on their own
\* Longest story list of the stories endpoint or of a highlight category.
StoryMaxLen == 2
\* Most highlight categories of a user.
MaxCats == 2

\* Story n of category c, with one photo.
WalkStory(c, n, ts) ==
    SourceRecord(10 * c + n, WalkUser, ts, UNSET, 0, <<Photo(10 * c + n)>>, {})

\* The story lists the upstream may serve, in any order of timestamps.
StoryLists == UNION {[1..n -> 1..WalkMaxTs] : n \in 0..StoryMaxLen}

WalkCategory(c, list) ==
    [id |-> c, title |-> c,
     stories |-> [n \in DOMAIN list |-> WalkStory(c, n, list[n])]]

InitStories ==
    /\ \E last \in 0..WalkMaxTs :
          \/ \E list \in StoryLists :
                wIn = [kind |-> "stories", last |-> last,
                       cats |-> <<[WalkCategory(1, list) EXCEPT !.title = UNSET]>>]
          \/ \E n \in 0..MaxCats : \E lists \in [1..n -> StoryLists] :
                wIn = [kind |-> "highlights", last |-> last,
                       cats |-> [c \in 1..n |-> WalkCategory(c, lists[c])]]
    /\ wOut = [done |-> FALSE, out |-> <<>>]
    /\ config = [run_forever |-> FALSE, args_users |-> <<>>, clients |-> <<>>]
    /\ upstream = [present |-> {}, subscriptions |-> <<>>, chats |-> <<>>,
                   images |-> <<>>]
    /\ database = <<>>
    /\ files = <<>>
    /\ main = [FreshMain EXCEPT !.pc = "exit"]
    /\ fetching = <<>>
    /\ user_medias = <<>>
    /\ downloading = <<>>
    /\ hist = [passes |-> 0, crashes |-> 0, changes |-> 0, faults |-> 0,
               faulty |-> FALSE, clean |-> <<>>, interrupted |-> {}]

\* get_story_media_by_id / get_highlight_media_by_id from the mark on, once
\* the stories (the categories) are decoded.
RunStories ==
    /\ ~wOut.done
    /\ wOut' = [done |-> TRUE,
                out |-> IF wIn.kind = "stories"
                        THEN StoryWalk(wIn.cats[1].stories, wIn.last, UNSET)
                        ELSE HighlightWalk(wIn.cats, wIn.last)]
    /\ UNCHANGED <<wIn, mainVars>>

NextStories == RunStories

SpecStories == InitStories /\ [][NextStories]_vars

\* ------------------------------------------------ the normalizers on their own
\* Most media items embedded in one record.
NormMaxMedia == 2

\* The prices of a record: none (unset or 0, both false for `if price`)
\* and a price.
Prices == {0, 5}

NormKinds == {"posts", "archived", "messages", "stories"}

\* A record with id 7 and the embedded media 1..n, media k viewable when
\* can_view[k].
NormRecord(author, expired_at, price, can_view, preview, question) ==
    [SourceRecord(7, author, 1, expired_at, price,
                  [k \in DOMAIN can_view |-> MediaItem(k, "photo", can_view[k], k)],
                  preview)
       EXCEPT !.question = question]

InitNorm ==
    /\ \E kind \in NormKinds, author \in {WalkUser, UNSET}, expired_at \in {UNSET, 1},
          price \in Prices, skip \in BOOLEAN, hc \in {UNSET, 1}, question \in {UNSET, 1},
          n \in 0..NormMaxMedia :
          \E can_view \in [1..n -> BOOLEAN], preview \in SUBSET (1..n) :
             /\ kind \in {"messages", "stories"} => author = WalkUser
             /\ kind # "stories" => hc = UNSET /\ question = UNSET
             /\ kind \in {"messages", "stories"} => expired_at = UNSET /\ ~skip
             /\ wIn = [kind |-> kind, skip_temporary |-> skip, highlight_category |-> hc,
                       rec |-> NormRecord(author, expired_at, price, can_view,
                                          preview, question)]
    /\ wOut = [done |-> FALSE, out |-> <<>>]
    /\ config = [run_forever |-> FALSE, args_users |-> <<>>, clients |-> <<>>]
    /\ upstream = [present |-> {}, subscriptions |-> <<>>, chats |-> <<>>,
                   images |-> <<>>]
    /\ database = <<>>
    /\ files = <<>>
    /\ main = [FreshMain EXCEPT !.pc = "exit"]
    /\ fetching = <<>>
    /\ user_medias = <<>>
    /\ downloading = <<>>
    /\ hist = [passes |-> 0, crashes |-> 0, changes |-> 0, faults |-> 0,
               faulty |-> FALSE, clean |-> <<>>, interrupted |-> {}]

\* The normalizer of the record's kind is called.
RunNormalize ==
    /\ ~wOut.done
    /\ wOut' = [done |-> TRUE,
                out |-> CASE wIn.kind = "posts" ->
                                normalize_post_media(wIn.rec, wIn.skip_temporary)
                          [] wIn.kind = "archived" ->
                                normalize_archived_post_media(wIn.rec, wIn.skip_temporary)
                          [] wIn.kind = "messages" -> normalize_message_media(wIn.rec)
                          [] OTHER ->
                                normalize_story_media(wIn.rec, wIn.highlight_category)]
    /\ UNCHANGED <<wIn, mainVars>>

NextNorm == RunNormalize

SpecNorm == InitNorm /\ [][NextNorm]_vars

\* ------------------------------------------- the profile cache on its own
\* main() is not running: the variables of the passes are idle.
NoProgram ==
    /\ config = [run_forever |-> FALSE, args_users |-> <<>>, clients |-> <<>>]
    /\ upstream = [present |-> {}, subscriptions |-> <<>>, chats |-> <<>>,
                   images |-> <<>>]
    /\ database = <<>>
    /\ files = <<>>
    /\ main = [FreshMain EXCEPT !.pc = "exit"]
    /\ fetching = <<>>
    /\ user_medias = <<>>
    /\ downloading = <<>>
    /\ hist = [passes |-> 0, crashes |-> 0, changes |-> 0, faults |-> 0,
               faulty |-> FALSE, clean |-> <<>>, interrupted |-> {}]

MaxLookups == 3

\* The threads that call get_user_details of one client: the main thread
\* (0) and the workers of the pool.
Threads == 0..PoolWidth

\* The argument of a lookup, as functools.cache keys it: main() passes the
\* strings of the command line, the fetchers the integer id.
KeyOf(thread, id) == [id |-> id, type |-> IF thread = 0 THEN "str" ELSE "int"]

LookupKeys == {KeyOf(t, u) : t \in Threads, u \in Users}

NotCached == UserObject(UNSET, UNSET)

Waiting == {t \in Threads : wOut.calls[t].st = "waiting"}

\* The client is constructed: the cache of get_user_details is empty.
\* wOut.events lists what the lookups did, in order: "hit" (answered from
\* the cache), "sent" (a request issued), "got" (its response returned and
\* stored), "raised".
InitLookup ==
    /\ wIn = <<>>
    /\ wOut = [cache |-> [k \in LookupKeys |-> NotCached],
               calls |-> [t \in Threads |-> [st |-> "idle", key |-> KeyOf(t, 1),
                                             request |-> 0]],
               requests |-> 0,
               events |-> <<>>]
    /\ NoProgram

Event(thread, key, what, object) ==
    [thread |-> thread, key |-> key, what |-> what, object |-> object]

Called == Cardinality({e \in DOMAIN wOut.events : wOut.events[e].what \in {"hit", "sent"}})

\* A thread calls get_user_details(user): the wrapper of functools.cache
\* answers from the cache, or calls the method, which sends the request.
\* The main thread calls it between the passes, the workers while the main
\* thread waits for them.
LookupCall(t, u) ==
    /\ wOut.calls[t].st = "idle"
    /\ Called < MaxLookups
    /\ IF t = 0 THEN Waiting = {} ELSE 0 \notin Waiting
    /\ LET key == KeyOf(t, u) IN
       IF wOut.cache[key] # NotCached
       THEN wOut' = [wOut EXCEPT
                       !.events = Append(@, Event(t, key, "hit", wOut.cache[key]))]
       ELSE wOut' = [wOut EXCEPT
                       !.requests = @ + 1,
                       !.calls[t] = [st |-> "waiting", key |-> key,
                                     request |-> wOut.requests + 1],
                       !.events = Append(@, Event(t, key, "sent", NotCached))]
    /\ UNCHANGED <<wIn, mainVars>>

\* send_api_request returns the decoded User: the wrapper stores it under
\* the key, over whatever is stored there, and returns it.
LookupReturn(t) ==
    /\ wOut.calls[t].st = "waiting"
    /\ LET key == wOut.calls[t].key
           user == UserObject(key.id, wOut.calls[t].request)
       IN  wOut' = [wOut EXCEPT
                      !.cache[key] = user,
                      !.calls[t].st = "idle",
                      !.events = Append(@, Event(t, key, "got", user))]
    /\ UNCHANGED <<wIn, mainVars>>

\* send_api_request raises ScrapingException: nothing is stored.
LookupRaise(t) ==
    /\ wOut.calls[t].st = "waiting"
    /\ wOut' = [wOut EXCEPT
                  !.calls[t].st = "idle",
                  !.events = Append(@, Event(t, wOut.calls[t].key, "raised", NotCached))]
    /\ UNCHANGED <<wIn, mainVars>>

NextLookup ==
    \/ \E t \in Threads, u \in Users : LookupCall(t, u)
    \/ \E t \in Threads : LookupReturn(t)
    \/ \E t \in Threads : LookupRaise(t)

SpecLookup == InitLookup /\ [][NextLookup]_vars

\* ------------------------------------------------ the signer on its own
MaxTicks == 4

MaxCalls == 2

\* time.time() is a float: the clock of the model counts half seconds.
TicksPerSecond == 2

\* The length of the hex digest of the model.
DigestLen == 2

HeaderRules(static_param, format, checksum_indexes, checksum_constant, app_token) ==
    [static_param |-> static_param, format |-> format,
     checksum_indexes |-> checksum_indexes, checksum_constant |-> checksum_constant,
     app_token |-> app_token]

\* header_rules is None.
NoHeaderRules == HeaderRules(UNSET, <<>>, <<>>, 0, UNSET)

\* The pieces of a format string: literal text, and the replacement
\* fields {0} (or the first {}) and {1:x} (or {:x} in second place).
Literal(text) == [field |-> "none", text |-> text]

Field(index) == [field |-> index, text |-> UNSET]

\* The rule sets of the model: formats such as 'a:{}:{:x}:b' and '{1:x}{0}',
\* checksum indexes with a repeated position, a negative constant.
RuleSets ==
    {HeaderRules(1, format, indexes, constant, 1) :
        format \in {<<Literal(7), Field("0"), Field("1"), Literal(9)>>,
                    <<Field("1"), Field("0")>>},
        indexes \in {<<1>>, <<1, 0, 1>>},
        constant \in {3 - 120, 3}}

\* str(n), the decimal digits.
RECURSIVE ToDecimal(_)
ToDecimal(n) == IF n < 10 THEN <<n>> ELSE Append(ToDecimal(n \div 10), n % 10)

RECURSIVE FromDecimal(_)
FromDecimal(s) ==
    IF s = <<>> THEN 0 ELSE 10 * FromDecimal(SubSeq(s, 1, Len(s) - 1)) + s[Len(s)]

\* format(n, 'x'), the hex digits.
RECURSIVE ToHex(_)
ToHex(n) == IF n < 16 THEN <<n>> ELSE Append(ToHex(n \div 16), n % 16)

\* ord() of a hex digit: '0'..'9' are 48..57, 'a'..'f' are 97..102.
Ord(digit) == IF digit < 10 THEN 48 + digit ELSE 87 + digit

Abs(n) == IF n < 0 THEN 0 - n ELSE n

RECURSIVE Sum(_)
Sum(s) == IF s = <<>> THEN 0 ELSE s[1] + Sum(Tail(s))

\* (mutant) the digest leaves the time out.
Sha1Timeless(static_param, current_seconds, url_path) ==
    LET n == (static_param + 4 * url_path) * 37 + 11
    IN  [i \in 1..DigestLen |-> (n \div 16 ^ (DigestLen - i)) % 16]

\* hashlib.sha1('\n'.join([static_param, current_seconds, url_path, '0'])).hexdigest().
\* SHA-1 is taken to be free of collisions: the digest of the model is a
\* one-to-one code of the three parts that vary.
Sha1(static_param, current_seconds, url_path) ==
    LET n == (static_param + 4 * url_path + 16 * FromDecimal(current_seconds)) * 37 + 11
    IN  [i \in 1..DigestLen |-> (n \div 16 ^ (DigestLen - i)) % 16]

\* abs(sum(ord(digest_hex[num]) for num in checksum_indexes) + checksum_constant)
Checksum(digest_hex, rules) ==
    Abs(Sum([k \in DOMAIN rules.checksum_indexes |->
                Ord(digest_hex[rules.checksum_indexes[k] + 1])])
        + rules.checksum_constant)

\* format.format(digest_hex, checksum)
RECURSIVE Format(_, _, _)
Format(format, digest_hex, checksum) ==
    IF format = <<>> THEN <<>>
    ELSE (CASE format[1].field = "none" -> <<[text |-> format[1].text]>>
            [] format[1].field = "0" -> digest_hex
            [] OTHER -> ToHex(checksum))
         \o Format(Tail(format), digest_hex, checksum)

Optional(name, value) ==
    IF value = UNSET THEN [x \in {} |-> UNSET] ELSE [x \in {name} |-> value]

\* (mutant) the headers are made without a look at header_rules.
generate_headers_unchecked(client, url_path, timer) ==
    [raised |-> FALSE, headers |-> [time |-> ToDecimal(timer \div TicksPerSecond)]]

\* generate_headers(url, timer): raises, or returns the headers.
generate_headers(client, url_path, timer) ==
    IF client.header_rules = NoHeaderRules
    THEN [raised |-> TRUE, headers |-> <<>>]
    ELSE LET current_seconds == ToDecimal(timer \div TicksPerSecond)
             digest_hex == Sha1(client.header_rules.static_param, current_seconds, url_path)
         IN  [raised |-> FALSE,
              headers |->
                 [accept |-> "application/json, text/plain, */*",
                  app_token |-> client.header_rules.app_token,
                  sign |-> Format(client.header_rules.format, digest_hex,
                                  Checksum(digest_hex, client.header_rules)),
                  time |-> current_seconds,
                  x_bc |-> client.x_bc]
                 @@ Optional("cookie", client.cookie)
                 @@ Optional("user_agent", client.user_agent)]

\* A client and the URL it requests.  wOut.calls lists the calls of
\* send_api_request that have ended, wOut.requests counts the requests
\* the session has sent.
InitSign ==
    /\ \E rules \in RuleSets \cup {NoHeaderRules}, cookie \in {UNSET, 1},
          user_agent \in {UNSET, 1}, url_path \in 1..2 :
          wIn = [header_rules |-> rules, cookie |-> cookie, user_agent |-> user_agent,
                 x_bc |-> 1, url_path |-> url_path]
    /\ wOut = [clock |-> 0, requests |-> 0, calls |-> <<>>]
    /\ NoProgram

\* Time passes.
Tick ==
    /\ wOut.clock < MaxTicks
    /\ wOut' = [wOut EXCEPT !.clock = @ + 1]
    /\ UNCHANGED <<wIn, mainVars>>

Call(st, cause, requested, headers) ==
    [st |-> st, cause |-> cause, requested |-> requested, headers |-> headers,
     timer |-> wOut.clock]

\* send_api_request(url, decoder): the headers are made as the arguments
\* of session.get are evaluated; the request is sent; the response is
\* decoded, or a RequestException or a DecodeError is raised again as a
\* ScrapingException.
SendApiRequest ==
    /\ Len(wOut.calls) < MaxCalls
    /\ LET made == generate_headers(wIn, wIn.url_path, wOut.clock) IN
       IF made.raised
       THEN wOut' = [wOut EXCEPT
                       !.calls = Append(@, Call("ScrapingException", "none", FALSE, <<>>))]
       ELSE \E cause \in {"none", "RequestException", "DecodeError"} :
               wOut' = [wOut EXCEPT
                          !.requests = @ + 1,
                          !.calls = Append(@, Call(IF cause = "none" THEN "returned"
                                                   ELSE "ScrapingException",
                                                   cause, TRUE, made.headers))]
    /\ UNCHANGED <<wIn, mainVars>>

NextSign == Tick \/ SendApiRequest

SpecSign == InitSign /\ [][NextSign]_vars

\* -------------------------------------------- sanitize_filename on its own
MaxNameLen == 4

\* The characters of the model's file names: a lowercase and an uppercase
\* letter, whitespace, the separators, and a character that is none of these.
Alphabet == {"a", "A", " ", "_", ".", "-", "/"}

\* 'Hello World! 2024/01/01.jpg'
HelloWorld ==
    <<"H", "e", "l", "l", "o", " ", "W", "o", "r", "l", "d", "!", " ",
      "2", "0", "2", "4", "/", "0", "1", "/", "0", "1", ".", "j", "p", "g">>

\* \s
IsSpace(c) == c = " "

\* [\w\d_.-]
IsKept(c) == c \notin {" ", "/", "!"}

\* str.lower() of a character.
Lower(c) ==
    CASE c = "A" -> "a"
      [] c = "H" -> "h"
      [] c = "W" -> "w"
      [] OTHER -> c

\* re.sub(r'\s', '_', s)
SpacesToUnderscores(s) == [i \in DOMAIN s |-> IF IsSpace(s[i]) THEN "_" ELSE s[i]]

\* re.sub(r'[^\w\d_.-]', '', s)
RECURSIVE Strip(_)
Strip(s) ==
    IF s = <<>> THEN <<>>
    ELSE (IF IsKept(s[1]) THEN <<s[1]>> ELSE <<>>) \o Strip(Tail(s))

\* re.sub(r'_+', '_', s) and re.sub(r'\.+', '.', s): every run of c
\* becomes one c.
RECURSIVE Collapse(_, _)
Collapse(s, c) ==
    IF s = <<>> THEN <<>>
    ELSE IF Len(s) >= 2 /\ s[1] = c /\ s[2] = c THEN Collapse(Tail(s), c)
    ELSE <<s[1]>> \o Collapse(Tail(s), c)

\* re.sub(r'(_\.|\._)', '.', s): from the left, every '_.' or '._' that
\* does not overlap the one before becomes '.'.
RECURSIVE JoinDots(_)
JoinDots(s) ==
    IF s = <<>> THEN <<>>
    ELSE IF Len(s) >= 2 /\ SubSeq(s, 1, 2) \in {<<"_", ".">>, <<".", "_">>}
    THEN <<".">> \o JoinDots(SubSeq(s, 3, Len(s)))
    ELSE <<s[1]>> \o JoinDots(Tail(s))

sanitize_filename(file_name) ==
    LET s == JoinDots(Collapse(Collapse(Strip(SpacesToUnderscores(file_name)), "_"), "."))
    IN  [i \in DOMAIN s |-> Lower(s[i])]

RECURSIVE Strings(_)
Strings(n) ==
    IF n = 0 THEN {<<>>}
    ELSE LET shorter == Strings(n - 1)
         IN  shorter \cup {Append(s, c) : s \in {x \in shorter : Len(x) = n - 1},
                                          c \in Alphabet}

InitName ==
    /\ wIn \in Strings(MaxNameLen) \cup {HelloWorld}
    /\ wOut = [done |-> FALSE, out |-> <<>>]
    /\ NoProgram

RunSanitize ==
    /\ ~wOut.done
    /\ wOut' = [done |-> TRUE, out |-> sanitize_filename(wIn)]
    /\ UNCHANGED <<wIn, mainVars>>

NextName == RunSanitize

SpecName == InitName /\ [][NextName]_vars

\* ------------------------------------------- the paginated loops on their own
MaxListed == 3

\* The loops that page through a listing: get_subscriptions, get_chats,
\* the three collection fetchers and the highlight categories.
ListingKinds == {"subscriptions", "chats", "posts", "archived", "messages", "highlights"}

\* wIn: the loop, the number of records the upstream holds, and the place
\* of the first record at or before the mark (count + 1: none; only the
\* collection fetchers look at the mark).
\* wOut: where the loop is, its offset, the records gathered, and the
\* last response: the length of its page and its has_more flag.
InitListing ==
    /\ \E kind \in ListingKinds, count \in 0..MaxListed, stop \in 1..(MaxListed + 1) :
          /\ stop <= count + 1
          /\ kind \notin {"posts", "archived", "messages"} => stop = count + 1
          /\ wIn = [kind |-> kind, count |-> count, stop |-> stop]
    /\ wOut = [pc |-> "request", offset |-> 0, got |-> 0, page |-> 0, has_more |-> FALSE]
    /\ NoProgram

\* send_api_request for the page at the offset: the upstream serves the
\* records it holds from there, up to the limit, with whatever has_more
\* flag.
ListingRequest ==
    /\ wOut.pc = "request"
    /\ \E has_more \in BOOLEAN :
          wOut' = [wOut EXCEPT
                     !.pc = "scan",
                     !.page = IF wOut.offset >= wIn.count THEN 0
                              ELSE Min2(PageLimit, wIn.count - wOut.offset),
                     !.has_more = has_more]
    /\ UNCHANGED <<wIn, mainVars>>

\* The records of the page above the mark.
AboveMark == Min2(wOut.offset + wOut.page, wIn.stop - 1) - Min2(wOut.offset, wIn.stop - 1)

\* The body of the loop after the response is decoded.
ListingScan ==
    /\ wOut.pc = "scan"
    /\ wOut' =
          CASE wIn.kind \in {"subscriptions", "chats"} ->
                  \* while has_more: offset += len(items), or offset = next_offset
                  [wOut EXCEPT !.got = @ + wOut.page,
                               !.offset = @ + wOut.page,
                               !.pc = IF wOut.has_more THEN "request" ELSE "returned"]
            [] wIn.kind = "messages" ->
                  \* return at the mark; return when not has_more; offset += len
                  [wOut EXCEPT !.got = @ + AboveMark,
                               !.offset = @ + wOut.page,
                               !.pc = IF AboveMark < wOut.page \/ ~wOut.has_more
                                      THEN "returned" ELSE "request"]
            [] wIn.kind \in {"posts", "archived"} ->
                  \* break on an empty page; return at the mark; offset += 10
                  [wOut EXCEPT !.got = @ + AboveMark,
                               !.offset = @ + PageLimit,
                               !.pc = IF wOut.page = 0 \/ AboveMark < wOut.page
                                      THEN "returned" ELSE "request"]
            [] OTHER ->
                  \* break on an empty page; offset += 5
                  [wOut EXCEPT !.got = @ + wOut.page,
                               !.offset = @ + PageLimit,
                               !.pc = IF wOut.page = 0 THEN "returned" ELSE "request"]
    /\ UNCHANGED <<wIn, mainVars>>

NextListing == ListingRequest \/ ListingScan

\* The thread of the loop keeps running: a response always comes (the
\* requests have a timeout) and the loop body always ends.
SpecListingFair == InitListing /\ [][NextListing]_vars /\ WF_vars(NextListing)

\* ------------------------------------------------------------------- C2
\* Position of the first record at or before the mark (Len + 1: none).
StopIndex(recs, last) ==
    LET at == {i \in DOMAIN recs : recs[i].created_at <= last}
    IN  IF at = {} THEN Len(recs) + 1 ELSE CHOOSE i \in at : \A k \in at : i <= k

\* The request (1, 2, ...) whose page holds the record at position i.
PageOf(i) == (i + PageLimit - 1) \div PageLimit

OutKeys(out) == {<<out[k].source_id, out[k].id>> : k \in DOMAIN out}

\* The viewable media of the records at the positions in I.
ViewableKeys(recs, I) ==
    {<<recs[i].id, recs[i].media[k].id>> : <<i, k>> \in
        {p \in I \X (1..1) : p[2] \in DOMAIN recs[p[1]].media
                               /\ recs[p[1]].media[p[2]].can_view}}

\* A record the fetcher visits without taking its media: a message sent
\* by somebody else than the target user, a post without author, a post
\* with an expiry when skip_temporary is set.
NotTaken(kind, rec, skip_temporary) ==
    IF kind = "messages" THEN rec.author # WalkUser
    ELSE rec.author = UNSET \/ (rec.expired_at # UNSET /\ skip_temporary)

WalkStopsRight ==
    LET j == StopIndex(wIn.recs, wIn.last) IN
    /\ \A k \in DOMAIN wOut.out : wOut.out[k].source_id < j
    /\ j <= Len(wIn.recs) => wOut.reqs = PageOf(j)

\* C2 as stated: the walk returns the media of EVERY record newer than the
\* mark that precedes the first record at or before it, nothing from that
\* record on, and sends no request after the page of that record.
C2_AsStated ==
    wOut.done =>
        /\ ViewableKeys(wIn.recs, 1..(StopIndex(wIn.recs, wIn.last) - 1))
               \subseteq OutKeys(wOut.out)
        /\ WalkStopsRight

\* C2 (amended): the posts, archived-posts and messages walks return, in
\* upstream order and once each, exactly the viewable media of the records
\* before the first record at or before the mark T - except the records
\* the fetcher visits without taking (messages of another sender, posts
\* without author, expiring posts under skip_temporary) - nothing from the
\* first record with timestamp <= T or from any record after it, even a
\* newer one, and the page of that record is the last one requested.
C2_HighWaterMark ==
    wOut.done =>
        LET j == StopIndex(wIn.recs, wIn.last)
            taken == {i \in 1..(j - 1) :
                        ~NotTaken(wIn.kind, wIn.recs[i], wIn.skip_temporary)}
        IN  /\ OutKeys(wOut.out) = ViewableKeys(wIn.recs, taken)
            /\ \A a, b \in DOMAIN wOut.out :
                  a < b => wOut.out[a].source_id < wOut.out[b].source_id
            /\ \A k \in DOMAIN wOut.out :
                  wOut.out[k].source_type = wIn.kind
            /\ WalkStopsRight

\* A walk that stopped on the first page at a record at or before the mark
\* while a newer record with viewable media sits on a later page.
C2_Witness ==
    /\ wOut.done /\ wOut.out # <<>> /\ wIn.last > 0
    /\ StopIndex(wIn.recs, wIn.last) <= PageLimit
    /\ \E i \in DOMAIN wIn.recs :
          /\ i > PageLimit
          /\ wIn.recs[i].created_at > wIn.last
          /\ HasViewable(wIn.recs[i])

\* ------------------------------------------------------------------ C13
\* The records the walk reaches and that have no viewable media.
EmptyReached ==
    {i \in 1..(StopIndex(wIn.recs, wIn.last) - 1) : ~HasViewable(wIn.recs[i])}

\* C13: a record newer than the mark that the walk reaches and that has no
\* media, or only media that cannot be viewed, adds nothing to the result
\* and does not end the walk: the page of every record between it and the
\* first record at or before the mark is requested, and the viewable media
\* of each of those records that the fetcher takes is in the result.
C13_EmptyRecordPassedOver ==
    wOut.done =>
       \A i \in EmptyReached :
          /\ \A x \in DOMAIN wOut.out : wOut.out[x].source_id # wIn.recs[i].id
          /\ \A k \in (i + 1)..(StopIndex(wIn.recs, wIn.last) - 1) :
                /\ wOut.reqs >= PageOf(k)
                /\ ~NotTaken(wIn.kind, wIn.recs[k], wIn.skip_temporary)
                      => ViewableKeys(wIn.recs, {k}) \subseteq OutKeys(wOut.out)

\* A walk went past a record without viewable media on its first page and
\* collected the media of a record on a later page.
C13_Witness ==
    /\ wOut.done
    /\ \E i \in EmptyReached : \E k \in DOMAIN wIn.recs :
          /\ i <= PageLimit /\ k > PageLimit
          /\ HasViewable(wIn.recs[k])
          /\ \E x \in DOMAIN wOut.out : wOut.out[x].source_id = wIn.recs[k].id

\* ------------------------------------------------------------------ C14
\* The place in a story list of the story the reversed walk stops at: the
\* last one at or before the mark (0: none).
StopAt(stories, last) ==
    MaxOf({j \in DOMAIN stories : stories[j].created_at <= last})

\* The stories after that place, last first.
TakenStories(stories, last) ==
    [n \in 1..(Len(stories) - StopAt(stories, last)) |-> stories[Len(stories) + 1 - n]]

Ascending(stories) ==
    \A a, b \in DOMAIN stories : a < b => stories[a].created_at <= stories[b].created_at

\* What the result holds of category c.
OutOf(c) == SelectSeq(wOut.out, LAMBDA m : m.highlight_category = wIn.cats[c].title)

\* C14: of the stories endpoint and of every highlight category the result
\* holds the stories from the end of the list back to the first one found
\* at or before the mark, in that order and nothing else; when the list is
\* in ascending order of timestamps these are exactly its stories newer
\* than the mark; the categories follow each other in the result, each
\* walked whether or not an earlier one was stopped.
C14_ReversedWalk ==
    wOut.done =>
       /\ \A c \in DOMAIN wIn.cats :
             LET stories == wIn.cats[c].stories
                 taken == TakenStories(stories, wIn.last)
             IN  /\ [n \in DOMAIN OutOf(c) |-> OutOf(c)[n].source_id]
                       = [n \in DOMAIN taken |-> taken[n].id]
                 /\ \A n \in DOMAIN OutOf(c) : OutOf(c)[n].source_type = "stories"
                 /\ Ascending(stories) =>
                       {OutOf(c)[n].source_id : n \in DOMAIN OutOf(c)}
                          = {stories[j].id : j \in {x \in DOMAIN stories :
                                                      stories[x].created_at > wIn.last}}
       /\ \A a, b \in DOMAIN wOut.out :
             a < b => wOut.out[a].highlight_category <= wOut.out[b].highlight_category
       /\ \A a \in DOMAIN wOut.out :
             \E c \in DOMAIN wIn.cats : wOut.out[a].highlight_category = wIn.cats[c].title

\* The walk of a highlight category stopped at a story at or before the
\* mark after it took a newer one, and the next category gave its stories.
C14_Witness ==
    /\ wOut.done /\ wIn.kind = "highlights"
    /\ \E c, d \in DOMAIN wIn.cats :
          /\ c < d
          /\ StopAt(wIn.cats[c].stories, wIn.last) > 0
          /\ OutOf(c) # <<>>
          /\ Len(OutOf(d)) = StoryMaxLen

\* ----------------------------------------------------------- C19 and C20
\* The embedded media of the record that can be viewed, in their order.
ViewableOf(rec) == SelectSeq(rec.media, LAMBDA m : m.can_view)

\* One entry per viewable media of the record, in their order, each with
\* the post's id, author and timestamp and the tag of the post's price.
OnePerViewable ==
    /\ Len(wOut.out) = Len(ViewableOf(wIn.rec))
    /\ \A n \in DOMAIN wOut.out :
          /\ wOut.out[n].id = ViewableOf(wIn.rec)[n].id
          /\ wOut.out[n].url = ViewableOf(wIn.rec)[n].source
          /\ wOut.out[n].source_id = wIn.rec.id
          /\ wOut.out[n].source_type = "posts"
          /\ wOut.out[n].value = IF wIn.rec.price # 0 THEN "paid" ELSE "free"

\* C19 as stated: for every post the normalizer yields one entry per
\* viewable media.
C19_AsStated == (wOut.done /\ wIn.kind = "posts") => OnePerViewable

\* C19 (amended): for a post that has an author and that is not an
\* expiring post normalized under skip_temporary, with N embedded media of
\* which M are viewable, the normalizer yields exactly M entries, one per
\* viewable media and in their order, each with the post's id as source id
\* and tagged 'paid' when the post's price is nonzero and 'free' otherwise;
\* for a post without author, and for an expiring post under
\* skip_temporary, it yields none.
C19_PostNormalization ==
    (wOut.done /\ wIn.kind = "posts") =>
       IF wIn.rec.author = UNSET \/ (wIn.rec.expired_at # UNSET /\ wIn.skip_temporary)
       THEN wOut.out = <<>>
       ELSE OnePerViewable /\ \A n \in DOMAIN wOut.out : wOut.out[n].user_id = wIn.rec.author

\* A post with a price and two media of which one is viewable gave one
\* entry, tagged 'paid'.
C19_Witness ==
    /\ wOut.done /\ wIn.kind = "posts"
    /\ Len(wIn.rec.media) = NormMaxMedia
    /\ Len(ViewableOf(wIn.rec)) = 1
    /\ Len(wOut.out) = 1
    /\ wOut.out[1].value = "paid"

\* C20: every entry a normalizer yields is tagged 'paid' exactly when the
\* record is a post with a nonzero price, or an archived post or a message
\* with a nonzero price and the entry's media id not in the record's
\* preview list; every other entry, and every entry of a story, with or
\* without highlight category, is tagged 'free'.
C20_ValueTag ==
    wOut.done =>
       \A n \in DOMAIN wOut.out :
          /\ wOut.out[n].value \in {"paid", "free"}
          /\ wOut.out[n].value = "paid" <=>
                /\ wIn.kind # "stories"
                /\ wIn.rec.price # 0
                /\ wIn.kind \in {"archived", "messages"}
                      => wOut.out[n].id \notin wIn.rec.preview

\* An archived post with a price gave a 'free' entry for the media of its
\* preview list and a 'paid' entry for the other one.
C20_Witness ==
    /\ wOut.done /\ wIn.kind = "archived"
    /\ \E a, b \in DOMAIN wOut.out :
          /\ wOut.out[a].id \in wIn.rec.preview /\ wOut.out[a].value = "free"
          /\ wOut.out[b].id \notin wIn.rec.preview /\ wOut.out[b].value = "paid"

\* ------------------------------------------------------------ the passes
RowsOf(rows, key) == {r \in rows : RowKey(r) = key}

IsImage(source_type) == source_type \in {"avatar", "header"}

SameTasks ==
    /\ DOMAIN downloading' = DOMAIN downloading
    /\ \A i \in DOMAIN downloading : downloading'[i].medias = downloading[i].medias

\* The rows download task i inserts in a step.
Inserted(i) == downloading'[i].tx \ downloading[i].tx

\* C1: when the last pass of an identity ended without any failure and
\* nothing has happened since (no change of the upstream, no failed
\* request, no stop of the process), its next pass places no file and
\* inserts no ledger row: no step changes the files or the committed rows,
\* and no download task inserts anything.
C1_SecondPassWritesNothing ==
    [][hist.clean[main.client] =>
          /\ files' = files
          /\ \A u \in Users : database'[u].rows = database[u].rows
          /\ \A i \in DOMAIN downloading' : downloading'[i].tx = {}]_vars

\* The second pass of an identity has fetched a story of a highlight again,
\* found its row in the ledger and gone past it.
C1_Witness ==
    /\ main.pc = "download"
    /\ hist.clean[main.client]
    /\ \E i \in DOMAIN downloading :
          /\ downloading[i].st = "media"
          /\ \E k \in 1..(downloading[i].index - 1) :
                Recorded(database[downloading[i].user.id].rows,
                         downloading[i].medias[k])

\* C3: while a media's temporary file is written and not yet renamed there
\* is no file at its destination and no row for it; when the process is
\* stopped there this is what stays; and once a later pass of the identity
\* has ended without failure the file is at the destination and the ledger
\* holds exactly one row for the media.
C3_InterruptedBeforeRename ==
    /\ \A i \in DOMAIN downloading :
          downloading[i].st = "media_tmp" =>
             LET m == downloading[i].medias[downloading[i].index] IN
             /\ ~Exists(files[downloading[i].user.id], DestPath(m))
             /\ ~HasRow(Ledger(i), MediaKey(m))
    /\ \A x \in hist.interrupted :
          x.at = "temp" =>
             /\ main.pc = "stopped" =>
                   /\ ~Exists(files[x.user], x.dest)
                   /\ ~HasRow(database[x.user].rows, x.key)
             /\ hist.clean[x.client] =>
                   /\ Exists(files[x.user], x.dest)
                   /\ Cardinality(RowsOf(database[x.user].rows, x.key)) = 1

\* The download of a media was stopped before the rename, and a later pass
\* of the identity has ended without failure.
C3_Witness ==
    \E x \in hist.interrupted :
       /\ x.at = "temp"
       /\ hist.clean[x.client]
       /\ HasRow(database[x.user].rows, x.key)

\* C4: a row is inserted only when its file is at its destination with
\* the remote length (the media at the task's place in the batch, or the
\* profile image); a row is never inserted for a key the ledger or the open
\* transaction holds; the committed rows never lose or change a row, and
\* hold one row per key.
C4_InsertAfterPlacement ==
    [][/\ \A u \in Users :
             /\ database[u].rows \subseteq database'[u].rows
             /\ \A r \in database'[u].rows :
                   Cardinality(RowsOf(database'[u].rows, RowKey(r))) = 1
       /\ SameTasks =>
             \A i \in DOMAIN downloading : \A r \in Inserted(i) :
                LET t == downloading[i]
                    fs == files'[t.user.id]
                IN  /\ ~HasRow(Ledger(i), RowKey(r))
                    /\ Cardinality(Inserted(i)) = 1
                    /\ IF IsImage(r.source_type)
                       THEN /\ Exists(fs, ImagePath(r.source_type))
                            /\ SizeAt(fs, ImagePath(r.source_type)) = r.timestamp
                       ELSE /\ t.index \in DOMAIN t.medias
                            /\ r = MediaRow(t.medias[t.index])
                            /\ Exists(fs, DestPath(t.medias[t.index]))
                            /\ SizeAt(fs, DestPath(t.medias[t.index]))
                                  = ContentLength(t.medias[t.index].url)]_vars

\* A committed row of a media whose file is at its destination.
C4_Witness ==
    \E i \in DOMAIN downloading :
       /\ downloading[i].st = "done"
       /\ \E k \in DOMAIN downloading[i].medias :
             LET m == downloading[i].medias[k] IN
             /\ MediaRow(m) \in database[downloading[i].user.id].rows
             /\ AlreadyThere(files[downloading[i].user.id], m)

\* The media whose row was inserted and not committed when the process was
\* stopped.
Orphans(u) == {x \in hist.interrupted : x.at = "placed" /\ x.user = u}

\* C5: when the process is stopped after a media is renamed into place and
\* before the commit, the file stays and the ledger has no row for it; in
\* the runs after it the row of such a media is inserted in a step that
\* leaves the files as they are; and once a later pass of the identity has
\* ended without failure the ledger holds exactly one row for it.
C5_OrphanAdopted ==
    [][/\ \A x \in hist'.interrupted :
             x.at = "placed" =>
                /\ Exists(files'[x.user], x.dest)
                /\ main'.pc = "stopped" => ~HasRow(database'[x.user].rows, x.key)
                /\ hist'.clean[x.client] =>
                      Cardinality(RowsOf(database'[x.user].rows, x.key)) = 1
       /\ SameTasks =>
             \A i \in DOMAIN downloading : \A r \in Inserted(i) :
                (\E x \in Orphans(downloading[i].user.id) : x.key = RowKey(r))
                   => files' = files]_vars

\* A media was placed and its row lost with the process; a later pass of
\* the identity has ended without failure and the row is committed.
C5_Witness ==
    \E x \in hist.interrupted :
       /\ x.at = "placed"
       /\ hist.clean[x.client]
       /\ HasRow(database[x.user].rows, x.key)

\* C6: a transport error never ends a download task: no task raises it and
\* none is cancelled for it; the task that logged one goes on with the next
\* item, and a task that is done has been through its whole batch and has
\* committed every row it inserted.
C6_TransportErrorContained ==
    \A i \in DOMAIN downloading :
       LET t == downloading[i] IN
       /\ t.error # "RequestException"
       /\ t.st \in {"raised", "cancelled"} =>
             \E k \in DOMAIN downloading :
                /\ downloading[k].st = "raised"
                /\ downloading[k].error \in {"FileNotFoundError", "TypeError"}
       /\ \A k \in t.logged : k < t.index
       /\ t.st = "done" =>
             /\ t.medias # <<>> => t.index = Len(t.medias) + 1
             /\ t.tx \subseteq database[t.user.id].rows

\* A task logged a transport error for one item, went on, placed and
\* committed a later item of the batch, and the task of another user is
\* done as well.
C6_Witness ==
    \E i, j \in DOMAIN downloading :
       /\ i # j
       /\ downloading[j].st = "done"
       /\ downloading[i].st = "done"
       /\ \E k \in downloading[i].logged : \E n \in DOMAIN downloading[i].medias :
             /\ n > k
             /\ MediaRow(downloading[i].medias[n]) \in downloading[i].tx
             /\ MediaRow(downloading[i].medias[n])
                   \in database[downloading[i].user.id].rows

\* C7 as stated: a fetcher that raises a scraping error ends only the pass
\* of its identity, the process goes on with the next identity or
\* iteration.
C7_AsStated ==
    ~(/\ main.pc = "dead"
      /\ main.error = "ScrapingException"
      /\ \E i \in DOMAIN fetching : fetching[i].st = "failed")

\* C8: when a download task has been submitted, every fetch task of the
\* pass has ended with its result handed over (the one that read its
\* user's mark included): no fetch task is queued or running.
C8_FetchBeforeDownload ==
    downloading # <<>> =>
       /\ main.pc \notin {"loop", "second", "fetch"}
       /\ \A j \in DOMAIN fetching : fetching[j].st = "done"

\* A download task runs; the fetch tasks of the last kind are all done.
C8_Witness ==
    /\ fetching # <<>>
    /\ \E i \in DOMAIN downloading : downloading[i].st \in {"avatar", "media_tmp"}

Ids(list) == {list[i].id : i \in DOMAIN list}

\* C9: the download phase has one task per distinct user id of the
\* subscription and chat lists, holding what every kind's fetch returned
\* for the user; no two tasks are for the same user.
C9_OneTaskPerUser ==
    /\ \A i, j \in DOMAIN user_medias :
          i # j => user_medias[i].user.id # user_medias[j].user.id
    /\ \A i, j \in DOMAIN downloading :
          i # j => downloading[i].user.id # downloading[j].user.id
    /\ main.pc = "download" =>
          /\ {downloading[i].user.id : i \in DOMAIN downloading}
                = Ids(main.users) \cup Ids(main.chats)
          /\ \A i \in DOMAIN downloading :
                downloading[i].medias = user_medias[i].medias

\* The one task of a user of both lists holds a post's and a message's
\* media.
C9_Witness ==
    /\ main.pc = "download"
    /\ \E i \in DOMAIN downloading :
          /\ downloading[i].user.id \in Ids(main.users) \cap Ids(main.chats)
          /\ \E a, b \in DOMAIN downloading[i].medias :
                /\ downloading[i].medias[a].source_type = "posts"
                /\ downloading[i].medias[b].source_type = "messages"

\* C10 as stated: when a new avatar is being placed, the avatar.jpg of
\* another timestamp has been renamed away: it is not at avatar.jpg to be
\* written over.
C10_AsStated ==
    \A i \in DOMAIN downloading :
       downloading[i].st = "avatar_tmp" =>
          LET u == downloading[i].user.id IN
          ~(/\ Exists(files[u], ImagePath("avatar"))
            /\ SizeAt(files[u], ImagePath("avatar")) # upstream.images[u].avatar)

\* C11: when the item a download task is at has a row for its (source
\* type, source id, media id), committed or inserted earlier by the task
\* itself, the task's step on it goes to the next item and does nothing
\* else: no request, no change of any file, no inserted row, nothing logged,
\* no change of the committed rows.
C11_RecordedItemUntouched ==
    [][SameTasks =>
          \A i \in DOMAIN downloading :
             LET t == downloading[i] IN
             (/\ t.st = "media"
              /\ t.index \in DOMAIN t.medias
              /\ HasRow(database[t.user.id].rows \cup t.tx, MediaKey(t.medias[t.index]))
              /\ downloading'[i] # t)
                => /\ downloading'[i] = [t EXCEPT !.index = @ + 1]
                   /\ files' = files
                   /\ database' = database
                   /\ hist' = hist]_vars

\* A task went past an item without a request: the item's row had been
\* inserted by the task for an earlier item of the batch with the same key
\* (a story that is also in a highlight category).
C11_Witness ==
    \E i \in DOMAIN downloading :
       LET t == downloading[i] IN
       /\ t.st = "media"
       /\ \E j, k \in DOMAIN t.medias :
             /\ j < k /\ k < t.index
             /\ MediaKey(t.medias[j]) = MediaKey(t.medias[k])
             /\ j \in t.requested /\ k \notin t.requested
             /\ MediaRow(t.medias[j]) \in t.tx
             /\ ~HasRow(database[t.user.id].rows, MediaKey(t.medias[k]))

\* C12 as stated: a fetch task whose user's ledger cannot be read, or has
\* no media table, takes 0 for its mark and goes on: it does not end with
\* an error of the ledger.
C12_AsStated ==
    \A i \in DOMAIN fetching :
       LET db == database[fetching[i].user.id] IN
       (fetching[i].st # "queued" /\ (~db.valid \/ ~db.table))
          => /\ fetching[i].error # "DatabaseError"
             /\ fetching[i].last = 0

\* The highlight stories of a user whose media is downloaded and recorded
\* (and that the stories endpoint does not list as well).
RecordedHighlights(u) ==
    {x \in Held(u, "highlights") :
        /\ \A y \in Held(u, "stories") : y.rec.id # x.rec.id
        /\ \E k \in DOMAIN x.rec.media :
              HasRow(database[u].rows, <<"stories", x.rec.id, x.rec.media[k].id>>)}

\* C15 as stated: a highlight fetch of a user reads a mark that is not
\* below the timestamp of any highlight media recorded for the user, and
\* returns no highlight item at or before such a timestamp.
C15_AsStated ==
    (main.pc = "fetch" /\ Kinds[main.kind] = "highlights") =>
       \A i \in DOMAIN fetching :
          fetching[i].st \in {"running", "done"} =>
             \A x \in RecordedHighlights(fetching[i].user.id) :
                /\ fetching[i].last >= x.rec.created_at
                /\ fetching[i].st = "done" =>
                      \A j \in DOMAIN user_medias :
                         \A k \in DOMAIN user_medias[j].medias :
                            LET m == user_medias[j].medias[k] IN
                            ~(/\ m.user_id = fetching[i].user.id
                              /\ m.highlight_category # UNSET
                              /\ m.created_at <= x.rec.created_at)

\* The media gathered for user u so far.
Gathered(um, u) ==
    UNION {{um[j].medias[k] : k \in DOMAIN um[j].medias} :
              j \in {x \in DOMAIN um : um[x].user.id = u}}

\* The posts and archived posts of a user that carry an expiry.
Expiring(u, kind) == {x \in Held(u, kind) : x.rec.expired_at # UNSET}

PostKinds == {"posts", "archived"}

\* C16: under skip_temporary the post and archived-post fetchers add no
\* media of a record with an expiry, the stories are never gathered, and
\* the fetch phase ends after the highlights; without it a fetch of posts
\* or archived posts whose mark is below every record of the collection
\* returns the viewable media of the expiring records, and after the
\* highlights a story fetch is submitted for every user of the list.
C16_SkipTemporary ==
    [][/\ (main'.pc = "fetch" /\ Kinds[main'.kind] = "stories")
             => ~config.clients[main'.client].skip_temporary
       /\ (main.pc = "fetch" /\ Kinds[main.kind] = "highlights"
             /\ main' # main /\ main'.pc # "dead")
             => IF Client.skip_temporary
                THEN main'.pc # "fetch"
                ELSE /\ main'.pc = "fetch" /\ Kinds[main'.kind] = "stories"
                     /\ [i \in DOMAIN fetching' |-> fetching'[i].user] = main.users
                     /\ \A i \in DOMAIN fetching' : fetching'[i].st = "queued"
       /\ (main'.pc \in {"fetch", "download"} /\ config.clients[main'.client].skip_temporary)
             => \A u \in Users : \A k \in PostKinds : \A x \in Expiring(u, k) :
                   \A m \in Gathered(user_medias', u) :
                      ~(m.source_type = k /\ m.source_id = x.rec.id)
       /\ (main.pc = "fetch" /\ Kinds[main.kind] \in PostKinds /\ ~Client.skip_temporary)
             => \A i \in DOMAIN fetching :
                   (fetching[i].st = "running" /\ fetching'[i].st = "done") =>
                      LET u == fetching[i].user.id IN
                      (\A y \in Held(u, Kinds[main.kind]) :
                           y.rec.created_at > fetching[i].last)
                         => \A x \in Expiring(u, Kinds[main.kind]) :
                               \A k \in DOMAIN x.rec.media :
                                  x.rec.media[k].can_view =>
                                     \E m \in Gathered(user_medias', u) :
                                        /\ m.source_type = Kinds[main.kind]
                                        /\ m.source_id = x.rec.id
                                        /\ m.id = x.rec.media[k].id]_vars

\* The scraper with skip_temporary has gathered the posts, the archived
\* posts and the messages: the expiring post newer than its user's mark is
\* not among the media, and no story fetch will follow; the other scraper
\* had fetched and downloaded a story in its pass before.
C16_Witness ==
    /\ main.pc = "fetch" /\ Kinds[main.kind] = "highlights"
    /\ Client.skip_temporary
    /\ \E u \in Users : \E x \in Expiring(u, "posts") :
          /\ \E i \in DOMAIN fetching : fetching[i].user.id = u
          /\ LastTimestamp(database[u], "posts") < x.rec.created_at
          /\ \A m \in Gathered(user_medias, u) : m.source_id # x.rec.id
    /\ \E u \in Users : \E r \in database[u].rows :
          /\ r.source_type = "stories"
          /\ \E y \in Held(u, "stories") : y.rec.id = r.source_id

\* C17 as stated: during the pass of a scraper with skip_temporary no
\* user's media holds a story, of the stories endpoint or of a highlight
\* category.
C17_AsStated ==
    (main.pc \in {"fetch", "download"} /\ Client.skip_temporary) =>
       \A u \in Users : \A m \in Gathered(user_medias, u) :
          m.source_type # "stories"

\* C18 as stated: when users are named on the command line, the pass
\* gathers and downloads for them alone: the lists download() works on
\* hold no other user (they are not the subscriptions and the chats).
C18_AsStated ==
    (config.args_users # <<>> /\ main.pc \in {"fetch", "download"}) =>
       /\ Ids(main.users) \cup Ids(main.chats)
             \subseteq {config.args_users[i] : i \in DOMAIN config.args_users}
       /\ \A i \in DOMAIN main.users : main.users[i].origin = "details"
       /\ \A i \in DOMAIN main.chats : main.chats[i].origin = "details"

\* The file types download_media has an extension for.
KnownTypes == {"photo", "video", "audio", "gif"}

\* C21: photo maps to jpg, video and gif to mp4, audio to mp3.  An item of
\* any other type is never requested, has no file under its destination or
\* its temporary name and no row, inserted or committed; the step of the
\* loop on it moves the index to the next item and changes nothing else of
\* the task, of the user's files or of the ledger.
C21_UnknownTypeSkipped ==
    /\ [](/\ Extension("photo") = "jpg" /\ Extension("video") = "mp4"
          /\ Extension("gif") = "mp4" /\ Extension("audio") = "mp3"
          /\ \A i \in DOMAIN downloading :
                LET t == downloading[i] IN
                \A k \in DOMAIN t.medias :
                   t.medias[k].file_type \notin KnownTypes =>
                      /\ k \notin t.requested
                      /\ k \notin t.logged
                      /\ ~HasRow(t.tx \cup database[t.user.id].rows, MediaKey(t.medias[k]))
                      /\ \A f \in files[t.user.id] :
                            f.path.name # t.medias[k].file_type)
    /\ [][\A i \in DOMAIN downloading :
             LET t == downloading[i] IN
             (/\ t.st = "media" /\ t.index <= Len(t.medias)
              /\ t.medias[t.index].file_type \notin KnownTypes
              /\ downloading' # <<>>
              /\ downloading'[i] # t)
                => /\ downloading'[i] = [t EXCEPT !.index = @ + 1]
                   /\ files'[t.user.id] = files[t.user.id]
                   /\ database' = database]_vars

\* A task has passed an item of an unknown type and then placed and
\* recorded the item after it.
C21_Witness ==
    \E i \in DOMAIN downloading :
       LET t == downloading[i] IN
       /\ t.st = "done"
       /\ \E k \in DOMAIN t.medias :
             /\ t.medias[k].file_type \notin KnownTypes
             /\ k + 1 \in DOMAIN t.medias
             /\ k + 1 \in t.requested
             /\ HasRow(database[t.user.id].rows, MediaKey(t.medias[k + 1]))
             /\ Exists(files[t.user.id], DestPath(t.medias[k + 1]))

\* ------------------------------------------------------------------ C22
\* C22 as stated: once a lookup of a user id has returned a profile, every
\* lookup of the same id that is called afterwards is answered without a
\* request, with the object the earlier lookup returned.
C22_AsStated ==
    \A a, b \in DOMAIN wOut.events :
       LET first == wOut.events[a]
           later == wOut.events[b]
       IN  (/\ a < b
            /\ first.what \in {"hit", "got"}
            /\ later.what \in {"hit", "sent"}
            /\ later.key.id = first.key.id)
              => /\ later.what = "hit"
                 /\ later.object = first.object

\* ----------------------------------------------------------- C23 and C24
\* C23: a client without header rules sends no request: every call of
\* send_api_request ends with the ScrapingException of generate_headers,
\* raised before the request and not as the wrapping of another error.
C23_NoRulesNoRequest ==
    wIn.header_rules = NoHeaderRules =>
       /\ wOut.requests = 0
       /\ \A k \in DOMAIN wOut.calls :
             /\ wOut.calls[k].st = "ScrapingException"
             /\ wOut.calls[k].cause = "none"
             /\ ~wOut.calls[k].requested

\* A client without header rules has made its calls.
C23_Witness ==
    /\ wIn.header_rules = NoHeaderRules
    /\ Len(wOut.calls) = MaxCalls

Seconds(call) == call.timer \div TicksPerSecond

C25_AsStated ==
    wOut.done =>
       /\ \A i \in DOMAIN wOut.out :
             /\ wOut.out[i] \notin {" ", "/", "!"}
             /\ wOut.out[i] \notin {"A", "H", "W"}
             /\ i < Len(wOut.out) =>
                   /\ ~(wOut.out[i] = "_" /\ wOut.out[i + 1] = "_")
                   /\ ~(wOut.out[i] = "." /\ wOut.out[i + 1] = ".")
       /\ wIn = HelloWorld =>
             wOut.out = <<"h", "e", "l", "l", "o", "_", "w", "o", "r", "l", "d", "_",
                          "2", "0", "2", "4", "0", "1", "0", "1", ".", "j", "p", "g">>

\* ------------------------------------------------------------------ C26
\* C26 as stated: when a download task has committed, every item of its
\* batch whose request failed is still above the mark the next fetch of
\* its source type will read, so that the next pass returns it again.
C26_AsStated ==
    \A i \in DOMAIN downloading :
       LET t == downloading[i] IN
       t.st = "done" =>
          \A k \in t.logged :
             LastTimestamp(database[t.user.id], t.medias[k].source_type)
                < t.medias[k].created_at

\* ------------------------------------------------------------------ C27
\* C27 as stated: when a download task starts for a user whose committed
\* ledger holds an avatar row (a header row), avatar.jpg (header.jpg) is
\* in the user's directory, and no task ends with the FileNotFoundError
\* of a rotation's rename.
C27_AsStated ==
    \A i \in DOMAIN downloading :
       LET t == downloading[i] IN
       /\ t.st = "avatar" =>
             \A which \in {"avatar", "header"} :
                (\E r \in database[t.user.id].rows : r.source_type = which)
                   => Exists(files[t.user.id], ImagePath(which))
       /\ t.error # "FileNotFoundError"

\* ------------------------------------------------------------------ C28
\* The places of a task's batch whose INSERT has been executed: the items
\* before the index that were requested without a logged failure.
Placed(t) == {k \in t.requested \ t.logged : k < t.index}

\* C28 as stated: when download_media has exited, by its return or by an
\* exception, the rows of the items it has placed are committed; and no
\* download task is cancelled.
C28_AsStated ==
    \A i \in DOMAIN downloading :
       LET t == downloading[i] IN
       /\ t.st \in {"done", "raised"} =>
             \A k \in Placed(t) : HasRow(database[t.user.id].rows, MediaKey(t.medias[k]))
       /\ t.st # "cancelled"

\* ------------------------------------------------------------------ C29
ForeverUnnamed == config.run_forever /\ config.args_users = <<>>

Submitted(k, u) ==
    /\ u \in Ids(TaskList(k, main))
    /\ ~(Kinds[k] = "stories" /\ Client.skip_temporary)

\* What the fetch tasks of the kinds 1..k return for user u, one after
\* the other.
RECURSIVE Returned(_, _)
Returned(k, u) ==
    IF k = 0 THEN <<>>
    ELSE Returned(k - 1, u)
         \o (IF Submitted(k, u)
             THEN FetchResult(Kinds[k], u, LastTimestamp(database[u], Kinds[k]),
                              Client.skip_temporary)
             ELSE <<>>)

\* C30: when the fetch phase ends, user_medias has one entry for every
\* user of the two lists and for nobody else, and the entry of a user
\* holds what the user's fetch tasks returned, kind after kind, each
\* result once: whatever the order in which the tasks of a kind ended.
C30_AccumulatorComplete ==
    [][(/\ main.pc = "fetch" /\ main'.pc # "fetch" /\ main'.pc # "dead"
        /\ main'.pc # "stopped")
          => /\ {user_medias[j].user.id : j \in DOMAIN user_medias}
                   = Ids(main.users) \cup Ids(main.chats)
             /\ \A j \in DOMAIN user_medias :
                   /\ user_medias[j].medias = Returned(Len(Kinds), user_medias[j].user.id)
                   /\ \A k \in DOMAIN user_medias :
                         user_medias[k].user.id = user_medias[j].user.id => k = j]_vars

\* The fetch phase has ended with the media of two kinds for one user, in
\* the order of the kinds, and with the entry of the second user of the
\* list before the entry of the first: its posts task ended first.
C30_Witness ==
    /\ main.pc = "download"
    /\ \A i \in DOMAIN downloading : downloading[i].st = "queued"
    /\ Len(main.users) = 2
    /\ Len(user_medias) = 2
    /\ user_medias[1].user.id = main.users[2].id
    /\ \E j \in DOMAIN user_medias :
          /\ Len(user_medias[j].medias) = 2
          /\ user_medias[j].medias[1].source_type # user_medias[j].medias[2].source_type

\* ------------------------------------------------------------------ C31
\* C31 as stated: whatever has_more flags the upstream sends with the
\* pages of the finitely many records it holds, every loop returns.
C31_AsStated == <>(wOut.pc = "returned")

\* ------------------------------------------------------------------ C32
\* The rows of the media a download task of the user holds, by where the
\* media came from: the stories of a highlight category, or the stories
\* endpoint.
TaskRows(u, from_highlight) ==
    UNION {{MediaRow(downloading[i].medias[k]) :
              k \in {j \in DOMAIN downloading[i].medias :
                       /\ downloading[i].medias[j].source_type = "stories"
                       /\ (downloading[i].medias[j].highlight_category # UNSET)
                             = from_highlight}} :
           i \in {j \in DOMAIN downloading : downloading[j].user.id = u}}

\* C32 as stated: a step that adds to a user's ledger only rows of
\* highlight items (and no row of a media of the story collection) leaves
\* the mark the story fetcher reads as it was.
C32_AsStated ==
    [][\A u \in Users :
          LET new == database'[u].rows \ database[u].rows IN
          (/\ database[u].rows \subseteq database'[u].rows
           /\ new # {}
           /\ new \subseteq TaskRows(u, TRUE)
           /\ new \cap TaskRows(u, FALSE) = {})
             => LastTimestamp(database'[u], "stories")
                   = LastTimestamp(database[u], "stories")]_vars

\* ------------------------------------------------------------------ C33
\* C33: the step of a download task whose media list is empty only ends
\* the task: no request is made, no row inserted, and the ledgers and the
\* files of every user are what they were (no table, no directory, no
\* image rotated); and the download phase is only entered when the media
\* list of some user is not empty.
C33_EmptyListUntouched ==
    [][/\ \A i \in DOMAIN downloading :
             (/\ i \in DOMAIN downloading'
              /\ downloading[i].medias = <<>>
              /\ downloading'[i] # downloading[i])
                => /\ downloading[i].st = "queued"
                   /\ downloading'[i] \in {[downloading[i] EXCEPT !.st = "done"],
                                           [downloading[i] EXCEPT !.st = "cancelled"]}
                   /\ diskVars' = diskVars
                   /\ hist' = hist
       /\ (main.pc # "download" /\ main'.pc = "download")
             => \E i \in DOMAIN user_medias : user_medias[i].medias # <<>>]_vars

\* Reached: in a download phase the task of a user without new media has
\* returned, the user has an avatar upstream, and the user has neither a
\* ledger table nor a file, while another task of the phase has media.
C33_Witness ==
    /\ main.pc = "download"
    /\ \E i, j \in DOMAIN downloading :
          /\ downloading[i].medias = <<>>
          /\ downloading[i].st = "done"
          /\ \/ upstream.images[downloading[i].user.id].avatar # UNSET
             \/ upstream.images[downloading[i].user.id].header # UNSET
          /\ ~database[downloading[i].user.id].table
          /\ files[downloading[i].user.id] = {}
          /\ downloading[j].medias # <<>>

\* ------------------------------------------------------------------ C34
\* C34 as stated: in a run whose process was never stopped (so that every
\* temporary file on disk was written by a call of download_media), once
\* the download task of a user has returned, no temporary file of one of
\* its items, nor of the user's avatar or header, is on disk.
C34_AsStated ==
    hist.crashes = 0 =>
       \A i \in DOMAIN downloading :
          downloading[i].st = "done" =>
             /\ \A k \in DOMAIN downloading[i].medias :
                   ~Exists(files[downloading[i].user.id],
                           TempPath(DestPath(downloading[i].medias[k])))
             /\ \A which \in {"avatar", "header"} :
                   ~Exists(files[downloading[i].user.id], TempPath(ImagePath(which)))

====
